---- MODULE Spec2Model ----
(***************************************************************************)
(* Pipeline execution engine (PipelineEngine) and its result cache         *)
(* (CacheManager) of AgentRaccoon.                                         *)
(*                                                                         *)
(* Rows are modelled as integers (one numeric field per row), a row array  *)
(* as a sequence of rows.  A JavaScript Set or Map is modelled as a        *)
(* sequence without duplicates, because the code iterates them in          *)
(* insertion order.  The md5 digest of calculatePipelineHash is modelled   *)
(* as collision free: the hash of a pipeline is the normalised value that  *)
(* is serialised and digested.                                             *)
(***************************************************************************)
EXTENDS Integers, Sequences, FiniteSets, TLC

VARIABLES
    pc,            \* per execute() call: idle | running | fetching | done
    call,          \* per call: the arguments (pipeline, useCache) and startTime
    reachableNodes,\* per call: the reachable set, in insertion order
    executionOrder,\* per call: the result of topologicalSort
    idx,           \* per call: position in executionOrder of the next node to execute
    nodeResults,   \* per call: nodeId -> row array (a local of execute)
    executed,      \* per call: the node ids passed to executeNode, in order
    result,        \* per call: the value the returned promise settled with
    prevCall,      \* the last call whose result the caller took (arguments and result)
    pipelineExecutionCache, \* CacheManager.pipelineExecutionCache
    nodeMetadataCache,      \* CacheManager.nodeMetadataCache
    dashboardElementCache,  \* CacheManager.dashboardElementCache
    config,        \* CacheManager.config
    now,           \* Date.now()
    lastOp,        \* the last cache operation issued directly (name, key, value returned)
    pipelines,     \* PipelineManager.pipelines: the stored pipelines, in insertion order
    databases      \* DatabaseManager.databases: the ids of the tables of the row store

vars == <<pc, call, reachableNodes, executionOrder, idx, nodeResults, executed,
          result, prevCall, pipelineExecutionCache, nodeMetadataCache,
          dashboardElementCache, config, now, lastOp, pipelines, databases>>

engineVars == <<pc, call, reachableNodes, executionOrder, idx, nodeResults,
                executed, result, prevCall>>
cacheVars == <<pipelineExecutionCache, nodeMetadataCache, dashboardElementCache>>

----------------------------------------------------------------------------
(* Bounds of the model *)

MaxNodes == 3      \* nodes of a generated pipeline
MaxEdges == 3      \* edges of a generated pipeline
MaxTime == 3       \* the clock stops advancing here

Procs == {1, 2}    \* execute() calls that can be in flight together

----------------------------------------------------------------------------
(* Sequences used as ordered sets *)

Range(s) == {s[i] : i \in 1..Len(s)}

SetAdd(s, x) == IF x \in Range(s) THEN s ELSE Append(s, x)

RECURSIVE SetAddAll(_, _)
SetAddAll(s, t) == IF t = <<>> THEN s ELSE SetAddAll(SetAdd(s, Head(t)), Tail(t))

RECURSIVE Concat(_)
Concat(ss) == IF ss = <<>> THEN <<>> ELSE Head(ss) \o Concat(Tail(ss))

Min(a, b) == IF a <= b THEN a ELSE b

\* the decimal digits of a natural number, as a sequence of characters
DigitChars == <<"0", "1", "2", "3", "4", "5", "6", "7", "8", "9">>

RECURSIVE Decimal(_)
Decimal(n) ==
    IF n < 10 THEN <<DigitChars[n + 1]>>
    ELSE Decimal(n \div 10) \o <<DigitChars[(n % 10) + 1]>>

\* Array.prototype.slice(0, n)
Slice(s, n) == SubSeq(s, 1, Min(Len(s), IF n < 0 THEN 0 ELSE n))

\* nodeResults[id] || []
ResultOrEmpty(nr, id) == IF id \in DOMAIN nr THEN nr[id] ELSE <<>>

----------------------------------------------------------------------------
(* Pipelines *)

NodeTypes == {"dataSource", "filter", "custom"}

\* pipeline.edges.filter(e => e.source === nodeId)
OutgoingEdges(pl, nodeId) == SelectSeq(pl.edges, LAMBDA e : e.source = nodeId)

\* pipeline.edges.filter(e => e.target === nodeId)
IncomingEdges(pl, nodeId) == SelectSeq(pl.edges, LAMBDA e : e.target = nodeId)

NodeIds(pl) == {pl.nodes[i].id : i \in 1..Len(pl.nodes)}

\* pipeline.nodes.find(n => n.id === nodeId), for an id that exists
FindNode(pl, nodeId) ==
    pl.nodes[CHOOSE i \in 1..Len(pl.nodes) :
                /\ pl.nodes[i].id = nodeId
                /\ \A j \in 1..(i - 1) : pl.nodes[j].id # nodeId]

\* pipeline.nodes.filter(n => n.type === 'dataSource')
DataSourceNodes(pl) == SelectSeq(pl.nodes, LAMBDA n : n.type = "dataSource")

----------------------------------------------------------------------------
(* Reachability, ordering and leaves *)

RECURSIVE ReachVisit(_, _, _), ReachVisitAll(_, _, _)
ReachVisit(pl, nodeId, visited) ==
    IF nodeId \in Range(visited) THEN visited
    ELSE ReachVisitAll(pl, OutgoingEdges(pl, nodeId), Append(visited, nodeId))
ReachVisitAll(pl, es, visited) ==
    IF es = <<>> THEN visited
    ELSE ReachVisitAll(pl, Tail(es), ReachVisit(pl, Head(es).target, visited))

\* a traversal that stops after the direct successors of the start node
findReachableNodesOneHop(pl, startNodeId) ==
    LET outs == OutgoingEdges(pl, startNodeId)
    IN  SetAddAll(<<startNodeId>>, [i \in 1..Len(outs) |-> outs[i].target])

findReachableNodes(pl, startNodeId) == ReachVisit(pl, startNodeId, <<>>)

\* the loop of execute over the dataSource nodes
RECURSIVE ReachableFrom(_, _, _)
ReachableFrom(pl, sources, acc) ==
    IF sources = <<>> THEN acc
    ELSE ReachableFrom(pl, Tail(sources),
                       SetAddAll(acc, findReachableNodes(pl, Head(sources).id)))

ComputeReachable(pl) == ReachableFrom(pl, DataSourceNodes(pl), <<>>)

\* the state of topologicalSort is the pair (visited, result)
RECURSIVE TopoVisit(_, _, _, _), TopoVisitAll(_, _, _, _)
TopoVisit(pl, reach, nodeId, st) ==
    IF nodeId \in st.visited THEN st
    ELSE IF nodeId \notin Range(reach) THEN st
    ELSE LET st1 == [st EXCEPT !.visited = @ \cup {nodeId}]
             st2 == TopoVisitAll(pl, reach, IncomingEdges(pl, nodeId), st1)
         IN  [st2 EXCEPT !.result = Append(@, nodeId)]
TopoVisitAll(pl, reach, es, st) ==
    IF es = <<>> THEN st
    ELSE TopoVisitAll(pl, reach, Tail(es), TopoVisit(pl, reach, Head(es).source, st))

RECURSIVE TopoVisitIds(_, _, _, _)
TopoVisitIds(pl, reach, ids, st) ==
    IF ids = <<>> THEN st
    ELSE TopoVisitIds(pl, reach, Tail(ids), TopoVisit(pl, reach, Head(ids), st))

NoIncomingEdges(pl, reach) ==
    SelectSeq(pl.nodes, LAMBDA n : n.id \in Range(reach) /\ IncomingEdges(pl, n.id) = <<>>)

\* an ordering that runs the nodes in the order they were reached
topologicalSortReachOrder(pl, reach) == reach

\* an ordering that starts only from the nodes without incoming edges
topologicalSortFromRoots(pl, reach) ==
    LET starts == [i \in 1..Len(NoIncomingEdges(pl, reach)) |-> NoIncomingEdges(pl, reach)[i].id]
    IN  TopoVisitIds(pl, reach, starts, [visited |-> {}, result |-> <<>>]).result

topologicalSort(pl, reach) ==
    LET starts == [i \in 1..Len(NoIncomingEdges(pl, reach)) |-> NoIncomingEdges(pl, reach)[i].id]
        st0 == [visited |-> {}, result |-> <<>>]
        st1 == TopoVisitIds(pl, reach, starts, st0)
        st2 == TopoVisitIds(pl, reach, reach, st1)
    IN  st2.result

\* a leaf detection that looks at every node of the pipeline
findLeafNodesOfAll(pl, reach) ==
    LET ids == [i \in 1..Len(pl.nodes) |-> pl.nodes[i].id]
    IN  SelectSeq(ids, LAMBDA id : OutgoingEdges(pl, id) = <<>>)

findLeafNodes(pl, reach) == SelectSeq(reach, LAMBDA id : OutgoingEdges(pl, id) = <<>>)

----------------------------------------------------------------------------
(* Node execution.  An outcome is [ok |-> TRUE, rows |-> ...] for a returned *)
(* row array and [ok |-> FALSE, error |-> ...] for a thrown error.          *)

Returned(rows) == [ok |-> TRUE, rows |-> rows]
Thrown(msg) == [ok |-> FALSE, error |-> msg]

\* A row is a record of its fields; the rows of the row store have the one
\* field v.  A row that is itself an array, which a custom function may
\* return, is the record of its items.
Row(n) == [v |-> n]
ArrayRow(items) == [items |-> items]

\* Array.isArray, on a row
IsArray(row) == "items" \in DOMAIN row

\* the rows of the row store's table dbId (DatabaseManager.getDatabaseData)
DbRows(dbId) == <<Row(dbId), Row(dbId + 1), Row(dbId + 2)>>

\* a single input is a row array, a multiple input an array of row arrays
SingleInput(rows) == [multi |-> FALSE, rows |-> rows, inputs |-> <<>>]
MultiInput(inputs) == [multi |-> TRUE, rows |-> <<>>, inputs |-> inputs]

\* String.prototype.localeCompare on the handles input-0 .. input-4, which
\* are modelled by their digit; a missing handle (-1) counts as input-0
HandleOf(e) == IF e.targetHandle < 0 THEN 0 ELSE e.targetHandle

\* Array.prototype.sort is stable: insertion into a sorted prefix, after the
\* equal elements.  The elements sorted are pairs [k |-> sort key, v |-> value].
RECURSIVE InsertSorted(_, _)
InsertSorted(sorted, x) ==
    IF sorted = <<>> THEN <<x>>
    ELSE IF x.k < Head(sorted).k THEN <<x>> \o sorted
    ELSE <<Head(sorted)>> \o InsertSorted(Tail(sorted), x)

RECURSIVE StableSortFrom(_, _)
StableSortFrom(s, acc) ==
    IF s = <<>> THEN acc
    ELSE StableSortFrom(Tail(s), InsertSorted(acc, Head(s)))

\* s sorted by the keys, keys[i] being the sort key of s[i]
StableSort(s, keys) ==
    LET keyed == [i \in 1..Len(s) |-> [k |-> keys[i], v |-> s[i]]]
        sorted == StableSortFrom(keyed, <<>>)
    IN  [i \in 1..Len(s) |-> sorted[i].v]

\* an input resolution in which the last incoming edge wins
getNodeInputDataLastEdge(node, pl, nr) ==
    LET incomingEdges == IncomingEdges(pl, node.id)
    IN  IF Len(incomingEdges) = 0 THEN SingleInput(<<>>)
        ELSE IF Len(incomingEdges) > 1 /\ node.type = "custom"
             THEN LET sortedEdges == StableSort(incomingEdges,
                                        [i \in 1..Len(incomingEdges) |-> HandleOf(incomingEdges[i])])
                  IN  MultiInput([i \in 1..Len(sortedEdges) |->
                                     ResultOrEmpty(nr, sortedEdges[i].source)])
        ELSE SingleInput(ResultOrEmpty(nr, incomingEdges[Len(incomingEdges)].source))

getNodeInputData(node, pl, nr) ==
    LET incomingEdges == IncomingEdges(pl, node.id)
    IN  IF Len(incomingEdges) = 0 THEN SingleInput(<<>>)
        ELSE IF Len(incomingEdges) = 1
             THEN SingleInput(ResultOrEmpty(nr, incomingEdges[1].source))
        ELSE IF node.type = "custom"
             THEN LET sortedEdges == StableSort(incomingEdges,
                                        [i \in 1..Len(incomingEdges) |-> HandleOf(incomingEdges[i])])
                  IN  MultiInput([i \in 1..Len(sortedEdges) |->
                                     ResultOrEmpty(nr, sortedEdges[i].source)])
        ELSE SingleInput(ResultOrEmpty(nr, incomingEdges[1].source))

\* DataTransform.filter: the conjunction of the conditions, on the row's field
\* (row[condition.field] is undefined on a row without the field: it equals no
\* value and Number(undefined) is NaN, which compares false)
ConditionHolds(row, c) ==
    LET defined == "v" \in DOMAIN row
    IN  CASE c.operator = "eq"  -> defined /\ row.v = c.value
          [] c.operator = "ne"  -> ~defined \/ row.v # c.value
          [] c.operator = "gt"  -> defined /\ row.v > c.value
          [] c.operator = "gte" -> defined /\ row.v >= c.value
          [] c.operator = "lt"  -> defined /\ row.v < c.value
          [] c.operator = "lte" -> defined /\ row.v <= c.value
          [] OTHER -> FALSE

DataTransformFilter(data, conditions) ==
    IF Len(conditions) = 0 THEN data
    ELSE SelectSeq(data, LAMBDA row :
                     \A i \in 1..Len(conditions) : ConditionHolds(row, conditions[i]))

----------------------------------------------------------------------------
(* Values of row fields for DataTransform.transform and .aggregate: null,   *)
(* undefined (what row[field] gives for a missing field), NaN, numbers as   *)
(* reduced fractions n/d, and strings.                                      *)

Null == [kind |-> "null"]
Undefined == [kind |-> "undefined"]
NaN == [kind |-> "NaN"]
Str(s) == [kind |-> "string", s |-> s]
Bool(b) == [kind |-> "boolean", b |-> b]

\* String(value) of a value that is no string: the strings of the model are
\* single letters, so it differs from all of them
Text(value) == [kind |-> "text", of |-> value]

\* new Date(value); dates are not among the data of the model
DateOf(value) == [kind |-> "date", of |-> value]

RECURSIVE GCD(_, _)
GCD(a, b) == IF b = 0 THEN a ELSE GCD(b, a % b)

Abs(n) == IF n < 0 THEN 0 - n ELSE n

\* the number n / d, for d > 0
Quotient(n, d) ==
    LET g == GCD(Abs(n), d)
    IN  IF n = 0 THEN [kind |-> "number", n |-> 0, d |-> 1]
        ELSE [kind |-> "number", n |-> n \div g, d |-> d \div g]

Num(n) == Quotient(n, 1)

\* row[field]
Field(row, field) == IF field \in DOMAIN row THEN row[field] ELSE Undefined

\* Number(value): the strings of the model are not numeric
ToNumber(value) ==
    CASE value.kind = "number" -> value
      [] value.kind = "null" -> Num(0)
      [] value.kind = "boolean" -> IF value.b THEN Num(1) ELSE Num(0)
      [] value.kind = "string" /\ value.s = "" -> Num(0)
      [] value.kind = "text" /\ value.of.kind = "number" -> value.of
      [] OTHER -> NaN

\* a + b on numbers
Plus(a, b) ==
    IF a.kind = "NaN" \/ b.kind = "NaN" THEN NaN
    ELSE Quotient(a.n * b.d + b.n * a.d, a.d * b.d)

\* a / n for a count n > 0
DividedBy(a, n) == IF a.kind = "NaN" THEN NaN ELSE Quotient(a.n, a.d * n)

LessThan(a, b) == a.n * b.d < b.n * a.d

\* values.reduce((acc, val) => acc + Number(val), 0)
RECURSIVE SumOf(_, _)
SumOf(values, acc) ==
    IF values = <<>> THEN acc
    ELSE SumOf(Tail(values), Plus(acc, ToNumber(Head(values))))

\* Math.min(...values.map(Number)) and Math.max, for a non-empty list: NaN
\* as soon as one argument is NaN
RECURSIVE Extreme(_, _, _)
Extreme(values, best, wantMin) ==
    IF values = <<>> THEN best
    ELSE LET v == ToNumber(Head(values))
         IN  IF v.kind = "NaN" \/ best.kind = "NaN" THEN NaN
             ELSE Extreme(Tail(values),
                          IF (wantMin /\ LessThan(v, best)) \/ (~wantMin /\ LessThan(best, v))
                          THEN v ELSE best,
                          wantMin)

\* an average that divides without looking at the number of values
performAggregationAvgDivides(data, agg) ==
    LET values == SelectSeq([i \in 1..Len(data) |-> Field(data[i], agg.field)],
                            LAMBDA v : v.kind \notin {"null", "undefined"})
    IN  CASE agg.function = "avg" ->
                 IF Len(values) > 0 THEN DividedBy(SumOf(values, Num(0)), Len(values))
                 ELSE NaN
          [] agg.function = "min" ->
                 IF Len(values) > 0
                 THEN Extreme(Tail(values), ToNumber(Head(values)), TRUE) ELSE Null
          [] agg.function = "max" ->
                 IF Len(values) > 0
                 THEN Extreme(Tail(values), ToNumber(Head(values)), FALSE) ELSE Null
          [] agg.function = "sum" -> SumOf(values, Num(0))
          [] agg.function = "count" -> Num(Len(values))
          [] agg.function = "distinct" -> Num(Cardinality(Range(values)))
          [] OTHER -> Null

performAggregation(data, agg) ==
    LET values == SelectSeq([i \in 1..Len(data) |-> Field(data[i], agg.field)],
                            LAMBDA v : v.kind \notin {"null", "undefined"})
    IN  CASE agg.function = "sum" -> SumOf(values, Num(0))
          [] agg.function = "avg" ->
                 IF Len(values) > 0 THEN DividedBy(SumOf(values, Num(0)), Len(values))
                 ELSE Num(0)
          [] agg.function = "min" ->
                 IF Len(values) > 0
                 THEN Extreme(Tail(values), ToNumber(Head(values)), TRUE) ELSE Null
          [] agg.function = "max" ->
                 IF Len(values) > 0
                 THEN Extreme(Tail(values), ToNumber(Head(values)), FALSE) ELSE Null
          [] agg.function = "count" -> Num(Len(values))
          [] agg.function = "distinct" -> Num(Cardinality(Range(values)))
          [] OTHER -> Null

\* result[name] = value
SetField(row, name, value) == [f \in DOMAIN row \cup {name} |-> IF f = name THEN value ELSE row[f]]

\* aggregations.forEach(agg => result[agg.alias] = performAggregation(data, agg))
RECURSIVE AddAggregations(_, _, _)
AddAggregations(out, data, aggregations) ==
    IF aggregations = <<>> THEN out
    ELSE AddAggregations(SetField(out, Head(aggregations).alias,
                                  performAggregation(data, Head(aggregations))),
                         data, Tail(aggregations))

\* what Array.prototype.join makes of a value: nothing of null and
\* undefined, the digits of a whole number, the characters of a string
JoinText(value) ==
    CASE value.kind \in {"null", "undefined"} -> <<>>
      [] value.kind = "NaN" -> <<"N", "a", "N">>
      [] value.kind = "string" -> <<value.s>>
      [] value.kind = "number" /\ value.d = 1 /\ value.n >= 0 -> Decimal(value.n)
      [] OTHER -> <<"-">> \o Decimal(Abs(value.n)) \o <<"/">> \o Decimal(value.d)

\* groupBy.map(field => row[field]).join('|')
RECURSIVE GroupKey(_, _)
GroupKey(row, groupBy) ==
    IF groupBy = <<>> THEN <<>>
    ELSE JoinText(Field(row, Head(groupBy)))
         \o (IF Len(groupBy) > 1 THEN <<"|">> \o GroupKey(row, Tail(groupBy)) ELSE <<>>)

\* the Map of the groups: the keys in the order they were first met
RECURSIVE GroupKeys(_, _, _)
GroupKeys(data, groupBy, keys) ==
    IF data = <<>> THEN keys
    ELSE GroupKeys(Tail(data), groupBy, SetAdd(keys, GroupKey(Head(data), groupBy)))

\* result[field] = groupData[0][field], for each group-by field
RECURSIVE AddGroupFields(_, _, _)
AddGroupFields(out, first, groupBy) ==
    IF groupBy = <<>> THEN out
    ELSE AddGroupFields(SetField(out, Head(groupBy), Field(first, Head(groupBy))),
                        first, Tail(groupBy))

EmptyRow == [f \in {} |-> Null]

aggregate(data, groupBy, aggregations) ==
    IF Len(groupBy) = 0
    THEN <<AddAggregations(EmptyRow, data, aggregations)>>
    ELSE LET keys == GroupKeys(data, groupBy, <<>>)
         IN  [i \in 1..Len(keys) |->
                 LET groupData == SelectSeq(data, LAMBDA row : GroupKey(row, groupBy) = keys[i])
                 IN  AddAggregations(AddGroupFields(EmptyRow, groupData[1], groupBy),
                                     groupData, aggregations)]

----------------------------------------------------------------------------
(* DataTransform.transform.  An operation is a record [type, sourceField,   *)
(* targetField, expression, dataType, dropFields] with "" for a string that *)
(* is not given.  The expressions of the model are "x * 2" and "y * 2",     *)
(* which read one field, and "(", which is neither a JavaScript expression  *)
(* nor a regular expression; the patterns are single letters and "(".       *)

\* an element of the row array that is null and not an object
NullRow == [null |-> TRUE]

IsNullRow(row) == "null" \in DOMAIN row

\* delete row[name]
RemoveField(row, name) == [f \in DOMAIN row \ {name} |-> row[f]]

Evaluated(value) == [ok |-> TRUE, value |-> value]

\* !value
Falsy(value) ==
    \/ value.kind \in {"null", "undefined", "NaN"}
    \/ value.kind = "number" /\ value.n = 0
    \/ value.kind = "string" /\ value.s = ""
    \/ value.kind = "boolean" /\ ~value.b

\* the value JSON.stringify(value) reads as inside an expression: NaN
\* becomes null
JsonValue(value) == IF value.kind = "NaN" THEN Null ELSE value

\* value * 2 in JavaScript
TimesTwo(value) ==
    LET n == ToNumber(value)
    IN  IF n.kind = "NaN" THEN NaN ELSE Quotient(2 * n.n, n.d)

\* the field an expression of the model reads
ExpressionField(expression) == IF expression = "x * 2" THEN "x" ELSE "y"

\* Object.keys of a null row throws before the inner try; a syntax error and
\* a reference to a name that is no field of the row are caught by it
evaluateExpression(expression, row) ==
    IF IsNullRow(row) THEN Thrown("TypeError")
    ELSE IF expression = "(" THEN Evaluated(Null)
    ELSE IF ExpressionField(expression) \in DOMAIN row
         THEN Evaluated(TimesTwo(JsonValue(row[ExpressionField(expression)])))
         ELSE Evaluated(Null)

castValue(value, dataType) ==
    CASE dataType = "string" -> IF value.kind \in {"string", "text"} THEN value ELSE Text(value)
      [] dataType = "number" -> ToNumber(value)
      [] dataType = "boolean" -> Bool(~Falsy(value))
      [] dataType = "date" -> DateOf(value)
      [] OTHER -> value

\* the letters of String(value)
Letters(value) ==
    LET v == IF value.kind = "text" THEN value.of ELSE value
    IN  CASE v.kind = "string" -> {v.s} \ {""}
          [] v.kind = "boolean" -> IF v.b THEN {"t", "r", "u", "e"} ELSE {"f", "a", "l", "s", "e"}
          [] v.kind = "null" -> {"n", "u", "l"}
          [] v.kind = "undefined" -> {"u", "n", "d", "e", "f", "i"}
          [] v.kind = "NaN" -> {"N", "a"}
          [] OTHER -> {}

\* an extraction that takes a pattern that is no regular expression for the
\* text to find
extractValueLiteralPattern(value, pattern) ==
    IF Falsy(value) THEN Null
    ELSE IF pattern = "(" THEN Str(pattern)
    ELSE IF pattern \in Letters(value) THEN Str(pattern)
    ELSE Null

\* new RegExp("(") throws inside the try, and null is returned
extractValue(value, pattern) ==
    IF Falsy(value) THEN Null
    ELSE IF pattern = "(" THEN Null
    ELSE IF pattern \in Letters(value) THEN Str(pattern)
    ELSE Null

RECURSIVE DropFields(_, _)
DropFields(newRow, dropFields) ==
    IF dropFields = <<>> THEN newRow
    ELSE DropFields(RemoveField(newRow, Head(dropFields)), Tail(dropFields))

\* one case of the switch: what it makes of newRow, reading row; reading a
\* field of a null row throws
ApplyOperation(newRow, row, op) ==
    CASE op.type = "rename" ->
            IF op.sourceField # "" /\ op.targetField # "" /\ op.sourceField # op.targetField
            THEN IF IsNullRow(row) THEN Thrown("TypeError")
                 ELSE Evaluated(RemoveField(SetField(newRow, op.targetField,
                                                     Field(row, op.sourceField)),
                                            op.sourceField))
            ELSE Evaluated(newRow)
      [] op.type = "calculate" ->
            IF op.expression # "" /\ op.targetField # ""
            THEN LET r == evaluateExpression(op.expression, row)
                 IN  Evaluated(SetField(newRow, op.targetField, IF r.ok THEN r.value ELSE Null))
            ELSE Evaluated(newRow)
      [] op.type = "cast" ->
            IF op.sourceField # "" /\ op.dataType # "" /\ op.targetField # ""
            THEN IF IsNullRow(row) THEN Thrown("TypeError")
                 ELSE Evaluated(SetField(newRow, op.targetField,
                                         castValue(Field(row, op.sourceField), op.dataType)))
            ELSE Evaluated(newRow)
      [] op.type = "extract" ->
            IF op.sourceField # "" /\ op.expression # "" /\ op.targetField # ""
            THEN IF IsNullRow(row) THEN Thrown("TypeError")
                 ELSE Evaluated(SetField(newRow, op.targetField,
                                         extractValue(Field(row, op.sourceField),
                                                      op.expression)))
            ELSE Evaluated(newRow)
      [] op.type = "drop" -> Evaluated(DropFields(newRow, op.dropFields))
      [] OTHER -> Evaluated(newRow)

\* operations.forEach over one row: every operation reads row, the row that
\* came in, and writes newRow
RECURSIVE ApplyOperations(_, _, _)
ApplyOperations(newRow, row, operations) ==
    IF operations = <<>> THEN Evaluated(newRow)
    ELSE LET r == ApplyOperation(newRow, row, Head(operations))
         IN  IF r.ok THEN ApplyOperations(r.value, row, Tail(operations)) ELSE r

\* { ...row }
Copy(row) == IF IsNullRow(row) THEN EmptyRow ELSE row

transform(data, operations) ==
    IF Len(operations) = 0 THEN Returned(data)
    ELSE LET rows == [i \in 1..Len(data) |->
                         ApplyOperations(Copy(data[i]), data[i], operations)]
         IN  IF \E i \in 1..Len(data) : ~rows[i].ok THEN Thrown("TypeError")
             ELSE Returned([i \in 1..Len(data) |-> rows[i].value])

executeFilter(node, input) ==
    IF Len(node.config.conditions) = 0 THEN Returned(input.rows)
    ELSE Returned(DataTransformFilter(input.rows, node.config.conditions))

\* The user functions of the model: "concat" returns its arguments
\* concatenated, "first" its first argument, "tuples" each row of its first
\* argument as an array of one item (data.map(r => [r])), "records" two rows
\* of its own with the fields x and s, "nulls" one such row and null, "throw"
\* throws and "scalar" returns a value that is not an array.
UserFunction(code, args) ==
    CASE code = "concat" -> Returned(Concat(args))
      [] code = "first"  -> Returned(args[1])
      [] code = "tuples" -> Returned([i \in 1..Len(args[1]) |-> ArrayRow(<<args[1][i]>>)])
      [] code = "records" -> Returned(<<[x |-> Num(1), s |-> Str("a")], [s |-> Str("b")]>>)
      [] code = "nulls"  -> Returned(<<[x |-> Num(1), s |-> Str("a")], NullRow>>)
      [] code = "scalar" -> Thrown("Custom function must return an array")
      [] OTHER -> Thrown("user error")

\* Array.isArray(inputData[0]) && Array.isArray(inputData): inputData[0] is
\* the first input of a multiple input and the first row of a single one
IsMultipleInput(input) ==
    \/ input.multi
    \/ Len(input.rows) > 0 /\ IsArray(input.rows[1])

\* the elements of inputData, as arrays where they are arrays
SpreadInput(input) ==
    IF input.multi THEN input.inputs
    ELSE [i \in 1..Len(input.rows) |->
             IF IsArray(input.rows[i]) THEN input.rows[i].items ELSE input.rows[i]]

\* the arguments userFunction is called with
ProcessArguments(input) ==
    IF IsMultipleInput(input) THEN SpreadInput(input) ELSE <<input.rows>>

executeCustom(node, input) ==
    IF node.config.customCode = ""
    THEN IF IsMultipleInput(input) THEN Returned(SpreadInput(input)[1])
         ELSE Returned(input.rows)
    ELSE LET r == UserFunction(node.config.customCode, ProcessArguments(input))
         IN  IF r.ok THEN r
             ELSE Thrown(<<"Custom code execution failed", r.error>>)

\* executeDataSource up to the call of getDatabaseData: the synchronous part
DataSourceConfigured(node) == node.config.databaseId # 0

\* executeDataSource once the fetch has settled
executeDataSource(node, fetchOk) ==
    IF fetchOk THEN Returned(DbRows(node.config.databaseId))
    ELSE Thrown(<<"data fetch failed", node.label>>)

executeTransform(node, input) ==
    IF Len(node.config.transformations) = 0 THEN Returned(input.rows)
    ELSE transform(input.rows, node.config.transformations)

\* DataTransform.aggregate reads a field of every row it is given, which
\* throws on a row that is null
executeAggregate(node, input) ==
    IF Len(node.config.aggregations) = 0 THEN Returned(input.rows)
    ELSE IF \E i \in 1..Len(input.rows) : IsNullRow(input.rows[i]) THEN Thrown("TypeError")
    ELSE Returned(aggregate(input.rows, node.config.groupBy, node.config.aggregations))

\* executeNode for the node types that do not await
executeNode(node, input) ==
    CASE node.type = "filter" -> executeFilter(node, input)
      [] node.type = "transform" -> executeTransform(node, input)
      [] node.type = "aggregate" -> executeAggregate(node, input)
      [] node.type = "custom" -> executeCustom(node, input)
      [] OTHER -> Returned(input.rows)

----------------------------------------------------------------------------
(* CacheManager.  A Map is a sequence of [key, data, timestamp, ttl] in     *)
(* insertion order.                                                        *)

MapKeys(m) == {m[i].key : i \in 1..Len(m)}

MapGet(m, k) == m[CHOOSE i \in 1..Len(m) : m[i].key = k]

\* a set that adds a second entry for a key the map already holds
MapSetAppend(m, k, e) == Append(m, e)

\* Map.prototype.set: an existing key keeps its position
MapSet(m, k, e) ==
    IF k \in MapKeys(m)
    THEN [i \in 1..Len(m) |-> IF m[i].key = k THEN e ELSE m[i]]
    ELSE Append(m, e)

MapDelete(m, k) == SelectSeq(m, LAMBDA e : e.key # k)

MapDeleteAll(m, ks) == SelectSeq(m, LAMBDA e : e.key \notin ks)

Entry(k, data, t, ttl) == [key |-> k, data |-> data, timestamp |-> t, ttl |-> ttl]

\* an expiry test that already fails at the boundary now - timestamp = ttl
ExpiredAtTtl(e, t) == t - e.timestamp >= e.ttl

\* Date.now() - entry.timestamp > entry.ttl
Expired(e, t) == t - e.timestamp > e.ttl

TimestampOf(e) == e.timestamp

\* an eviction that already starts when the map is exactly full
enforceMaxEntriesWhenFull(cache, cfg) ==
    IF Len(cache) < cfg.maxCacheEntries THEN cache
    ELSE LET entries == StableSort(cache, [i \in 1..Len(cache) |-> TimestampOf(cache[i])])
             toDelete == Slice(entries, Len(cache) - cfg.maxCacheEntries + 1)
         IN  MapDeleteAll(cache, MapKeys(toDelete))

enforceMaxEntries(cache, cfg) ==
    IF Len(cache) <= cfg.maxCacheEntries THEN cache
    ELSE LET entries == StableSort(cache, [i \in 1..Len(cache) |-> TimestampOf(cache[i])])
             toDelete == Slice(entries, Len(cache) - cfg.maxCacheEntries)
         IN  MapDeleteAll(cache, MapKeys(toDelete))

\* a normalisation that leaves the node configs out
calculatePipelineHashNoConfig(pl) ==
    IF ~pl.edgesDefined THEN Thrown("TypeError")
    ELSE [ok |-> TRUE,
          hash |-> [nodes |-> [i \in 1..Len(pl.nodes) |->
                                 [id |-> pl.nodes[i].id, type |-> pl.nodes[i].type]],
                    edges |-> [i \in 1..Len(pl.edges) |->
                                 [source |-> pl.edges[i].source,
                                  target |-> pl.edges[i].target]]]]

\* JSON.stringify of the normalised pipeline; md5 is taken as collision free.
\* pipeline.edges undefined makes pipeline.edges.map throw a TypeError.
calculatePipelineHash(pl) ==
    IF ~pl.edgesDefined THEN Thrown("TypeError")
    ELSE [ok |-> TRUE,
          hash |-> [nodes |-> [i \in 1..Len(pl.nodes) |->
                                 [id |-> pl.nodes[i].id,
                                  type |-> pl.nodes[i].type,
                                  config |-> pl.nodes[i].config]],
                    edges |-> [i \in 1..Len(pl.edges) |->
                                 [source |-> pl.edges[i].source,
                                  target |-> pl.edges[i].target]]]]

\* node results cut at the cap of the leaf results
LimitNodeResultsLeafCap(nr, cfg) ==
    [id \in DOMAIN nr |-> Slice(nr[id], cfg.maxExecutionResultRows)]

LimitNodeResults(nr, cfg) == [id \in DOMAIN nr |-> Slice(nr[id], cfg.maxNodeResultRows)]

LimitLeafResults(leafResults, cfg) ==
    [i \in 1..Len(leafResults) |->
        [leafResults[i] EXCEPT !.data = Slice(@, cfg.maxExecutionResultRows)]]

cachePipelineExecution(cache, cfg, t, pipelineId, pipelineHash, nr, leafResults, executionTime) ==
    LET cacheData == [pipelineId |-> pipelineId,
                      pipelineHash |-> pipelineHash,
                      nodeResults |-> LimitNodeResults(nr, cfg),
                      leafResults |-> LimitLeafResults(leafResults, cfg),
                      executionTime |-> executionTime,
                      cachedAt |-> t]
    IN  enforceMaxEntries(
            MapSet(cache, pipelineId, Entry(pipelineId, cacheData, t, cfg.pipelineExecutionTTL)),
            cfg)

\* a lookup that restarts the validity of the entry it returns
getPipelineExecutionTouch(cache, t, pipelineId, pipelineHash) ==
    IF pipelineId \notin MapKeys(cache) THEN [hit |-> FALSE, cache |-> cache]
    ELSE IF Expired(MapGet(cache, pipelineId), t)
         THEN [hit |-> FALSE, cache |-> MapDelete(cache, pipelineId)]
    ELSE IF MapGet(cache, pipelineId).data.pipelineHash # pipelineHash
         THEN [hit |-> FALSE, cache |-> MapDelete(cache, pipelineId)]
    ELSE [hit |-> TRUE,
          cache |-> MapSet(cache, pipelineId,
                           [MapGet(cache, pipelineId) EXCEPT !.timestamp = t]),
          data |-> MapGet(cache, pipelineId).data]

\* a lookup that reports a hash mismatch as a miss but keeps the entry
getPipelineExecutionKeepStale(cache, t, pipelineId, pipelineHash) ==
    IF pipelineId \notin MapKeys(cache) THEN [hit |-> FALSE, cache |-> cache]
    ELSE IF Expired(MapGet(cache, pipelineId), t)
         THEN [hit |-> FALSE, cache |-> MapDelete(cache, pipelineId)]
    ELSE IF MapGet(cache, pipelineId).data.pipelineHash # pipelineHash
         THEN [hit |-> FALSE, cache |-> cache]
    ELSE [hit |-> TRUE, cache |-> cache, data |-> MapGet(cache, pipelineId).data]

\* the value returned (hit, data) and the map left behind
getPipelineExecution(cache, t, pipelineId, pipelineHash) ==
    IF pipelineId \notin MapKeys(cache) THEN [hit |-> FALSE, cache |-> cache]
    ELSE IF Expired(MapGet(cache, pipelineId), t)
         THEN [hit |-> FALSE, cache |-> MapDelete(cache, pipelineId)]
    ELSE IF MapGet(cache, pipelineId).data.pipelineHash # pipelineHash
         THEN [hit |-> FALSE, cache |-> MapDelete(cache, pipelineId)]
    ELSE [hit |-> TRUE, cache |-> cache, data |-> MapGet(cache, pipelineId).data]

\* an invalidation that leaves the entry where it is
invalidatePipelineExecutionKeep(cache, pipelineId) == cache

invalidatePipelineExecution(cache, pipelineId) == MapDelete(cache, pipelineId)

\* pipeline.nodes.some(node => node.type === 'dataSource' && node.config.databaseId === databaseId)
ReadsDatabase(pl, databaseId) ==
    \E i \in 1..Len(pl.nodes) :
        pl.nodes[i].type = "dataSource" /\ pl.nodes[i].config.databaseId = databaseId

\* only the execution-result map is passed: no other map is touched
invalidatePipelinesByDatabase(cache, databaseId, allPipelines) ==
    LET affectedPipelineIds ==
            {allPipelines[i].id : i \in {j \in 1..Len(allPipelines) :
                                            ReadsDatabase(allPipelines[j], databaseId)}}
    IN  MapDeleteAll(cache, affectedPipelineIds)

\* Ids are generated as a fixed word followed by Date.now() (pipeline_<ms>,
\* node_<ms>, dashboard_<ms>, element_<ms>); an id is modelled by its number
\* and written in decimal digits (Decimal), a string being a sequence of
\* characters.
\* the template literal `${ownerId}:${elementId}`
ComposedKey(ownerId, elementId) == Decimal(ownerId) \o <<":">> \o Decimal(elementId)

\* a prefix test that leaves the separator out
StartsWithOwnerPrefix(key, ownerId) ==
    LET prefix == Decimal(ownerId)
    IN  Len(key) >= Len(prefix) /\ SubSeq(key, 1, Len(prefix)) = prefix

\* key.startsWith(`${ownerId}:`)
StartsWithOwner(key, ownerId) ==
    LET prefix == Decimal(ownerId) \o <<":">>
    IN  Len(key) >= Len(prefix) /\ SubSeq(key, 1, Len(prefix)) = prefix

cacheNodeMetadata(cache, cfg, t, pipelineId, nodeId, columns) ==
    enforceMaxEntries(
        MapSet(cache, ComposedKey(pipelineId, nodeId),
               Entry(ComposedKey(pipelineId, nodeId),
                     [nodeId |-> nodeId, pipelineId |-> pipelineId,
                      columns |-> columns, lastUpdated |-> t],
                     t, cfg.nodeMetadataTTL)),
        cfg)

getNodeMetadata(cache, t, pipelineId, nodeId) ==
    LET key == ComposedKey(pipelineId, nodeId)
    IN  IF key \notin MapKeys(cache) THEN [hit |-> FALSE, cache |-> cache]
        ELSE IF Expired(MapGet(cache, key), t)
             THEN [hit |-> FALSE, cache |-> MapDelete(cache, key)]
        ELSE [hit |-> TRUE, cache |-> cache, data |-> MapGet(cache, key).data]

\* invalidateNodeMetadata(pipelineId) without a node id
invalidateNodeMetadata(cache, pipelineId) ==
    MapDeleteAll(cache, {k \in MapKeys(cache) : StartsWithOwner(k, pipelineId)})

cacheDashboardElement(cache, cfg, t, dashboardId, elementId, data) ==
    enforceMaxEntries(
        MapSet(cache, ComposedKey(dashboardId, elementId),
               Entry(ComposedKey(dashboardId, elementId),
                     Slice(data, cfg.maxDashboardElementRows),
                     t, cfg.dashboardCacheTTL)),
        cfg)

\* a lookup that already misses at the boundary now - timestamp = ttl
getDashboardElementStrict(cache, t, dashboardId, elementId) ==
    LET key == ComposedKey(dashboardId, elementId)
    IN  IF key \notin MapKeys(cache) THEN [hit |-> FALSE, cache |-> cache]
        ELSE IF ExpiredAtTtl(MapGet(cache, key), t)
             THEN [hit |-> FALSE, cache |-> MapDelete(cache, key)]
        ELSE [hit |-> TRUE, cache |-> cache, data |-> MapGet(cache, key).data]

getDashboardElement(cache, t, dashboardId, elementId) ==
    LET key == ComposedKey(dashboardId, elementId)
    IN  IF key \notin MapKeys(cache) THEN [hit |-> FALSE, cache |-> cache]
        ELSE IF Expired(MapGet(cache, key), t)
             THEN [hit |-> FALSE, cache |-> MapDelete(cache, key)]
        ELSE [hit |-> TRUE, cache |-> cache, data |-> MapGet(cache, key).data]

invalidateDashboard(cache, dashboardId) ==
    MapDeleteAll(cache, {k \in MapKeys(cache) : StartsWithOwner(k, dashboardId)})

\* one of the three passes of cleanExpiredCache
\* a sweep that already drops the entries whose age equals their ttl
CleanExpiredAtTtl(cache, t) == SelectSeq(cache, LAMBDA e : ~ExpiredAtTtl(e, t))

CleanExpired(cache, t) == SelectSeq(cache, LAMBDA e : ~Expired(e, t))

----------------------------------------------------------------------------
(* PipelineEngine.execute *)

NoPipeline == [id |-> 0, edgesDefined |-> TRUE, nodes |-> <<>>, edges |-> <<>>]
NoCall == [pipeline |-> NoPipeline, useCache |-> FALSE, startTime |-> 0]
NoResult == [status |-> "none"]
EmptyResults == [id \in {} |-> <<>>]

\* a catch block that also hands back an empty legacy data field
ErrorResultWithData(pl, msg, elapsed) ==
    [pipelineId |-> pl.id, status |-> "error", error |-> msg, executionTime |-> elapsed,
     data |-> <<>>]

\* the object returned by the catch block of execute
ErrorResult(pl, msg, elapsed) ==
    [pipelineId |-> pl.id, status |-> "error", error |-> msg, executionTime |-> elapsed]

\* the object returned on a cache hit
CachedResult(pl, cached) ==
    [pipelineId |-> pl.id,
     status |-> "success",
     data |-> IF Len(cached.leafResults) > 0 THEN cached.leafResults[1].data ELSE <<>>,
     leafResults |-> cached.leafResults,
     executionTime |-> cached.executionTime,
     nodeResults |-> cached.nodeResults,
     cached |-> TRUE]

\* leafNodes.map(...) of execute
CollectLeafResults(pl, reach, nr) ==
    LET leafNodes == findLeafNodes(pl, reach)
    IN  [i \in 1..Len(leafNodes) |->
            [nodeId |-> leafNodes[i],
             nodeLabel |-> FindNode(pl, leafNodes[i]).label,
             nodeType |-> FindNode(pl, leafNodes[i]).type,
             data |-> ResultOrEmpty(nr, leafNodes[i])]]

\* a fresh execution that hands back the arrays as the cache stores them
FreshResultCapped(pl, reach, nr, elapsed) ==
    LET leafResults == LimitLeafResults(CollectLeafResults(pl, reach, nr), config)
    IN  [pipelineId |-> pl.id,
         status |-> "success",
         data |-> IF Len(leafResults) > 0 THEN leafResults[1].data ELSE <<>>,
         leafResults |-> leafResults,
         executionTime |-> elapsed,
         nodeResults |-> LimitNodeResults(nr, config)]

\* the object returned by a fresh execution that succeeded
FreshResult(pl, reach, nr, elapsed) ==
    LET leafResults == CollectLeafResults(pl, reach, nr)
    IN  [pipelineId |-> pl.id,
         status |-> "success",
         data |-> IF Len(leafResults) > 0 THEN leafResults[1].data ELSE <<>>,
         leafResults |-> leafResults,
         executionTime |-> elapsed,
         nodeResults |-> nr]

\* the cache write of a fresh execution: only when useCache is set
WriteOnSuccess(cache, cfg, t, c, reach, nr) ==
    IF c.useCache
    THEN cachePipelineExecution(cache, cfg, t, c.pipeline.id,
                                calculatePipelineHash(c.pipeline).hash, nr,
                                CollectLeafResults(c.pipeline, reach, nr),
                                t - c.startTime)
    ELSE cache

\* the promise of call p settles with r
Settle(p, r) ==
    /\ pc' = [pc EXCEPT ![p] = "done"]
    /\ result' = [result EXCEPT ![p] = r]
    /\ UNCHANGED prevCall

\* the loop of execute moves on after the node at idx stored its output nr[id];
\* after the last node the leaves are collected, the cache written and the
\* result returned
Advance(p, nr) ==
    /\ nodeResults' = [nodeResults EXCEPT ![p] = nr]
    /\ IF idx[p] < Len(executionOrder[p])
       THEN /\ idx' = [idx EXCEPT ![p] = idx[p] + 1]
            /\ pc' = [pc EXCEPT ![p] = "running"]
            /\ UNCHANGED <<result, prevCall, pipelineExecutionCache>>
       ELSE /\ idx' = [idx EXCEPT ![p] = idx[p] + 1]
            /\ pipelineExecutionCache' =
                   WriteOnSuccess(pipelineExecutionCache, config, now, call[p],
                                  reachableNodes[p], nr)
            /\ Settle(p, FreshResult(call[p].pipeline, reachableNodes[p], nr,
                                     now - call[p].startTime))

\* execute(pipeline, useCache) up to its first await
Execute(p, pl, useCache) ==
    /\ pc[p] = "idle"
    /\ call' = [call EXCEPT ![p] = [pipeline |-> pl, useCache |-> useCache, startTime |-> now]]
    /\ UNCHANGED <<nodeMetadataCache, dashboardElementCache, config, now, lastOp,
                   pipelines, databases>>
    /\ LET h == calculatePipelineHash(pl)
           got == getPipelineExecution(pipelineExecutionCache, now, pl.id, h.hash)
       IN  IF useCache /\ ~h.ok
           THEN \* thrown outside the try block: the promise rejects
                /\ Settle(p, [status |-> "rejected", error |-> h.error])
                /\ UNCHANGED <<reachableNodes, executionOrder, idx, nodeResults,
                               executed, pipelineExecutionCache>>
           ELSE IF useCache /\ got.hit
           THEN /\ Settle(p, CachedResult(pl, got.data))
                /\ pipelineExecutionCache' = got.cache
                /\ UNCHANGED <<reachableNodes, executionOrder, idx, nodeResults, executed>>
           ELSE /\ pipelineExecutionCache' =
                       IF useCache THEN got.cache ELSE pipelineExecutionCache
                /\ nodeResults' = [nodeResults EXCEPT ![p] = EmptyResults]
                /\ executed' = [executed EXCEPT ![p] = <<>>]
                /\ IF Len(DataSourceNodes(pl)) = 0
                   THEN /\ Settle(p, ErrorResult(pl, "No data source node found in pipeline", 0))
                        /\ UNCHANGED <<reachableNodes, executionOrder, idx>>
                   ELSE IF ~pl.edgesDefined
                   THEN \* pipeline.edges.filter throws inside the try block
                        /\ Settle(p, ErrorResult(pl, "TypeError", 0))
                        /\ UNCHANGED <<reachableNodes, executionOrder, idx>>
                   ELSE /\ reachableNodes' = [reachableNodes EXCEPT ![p] = ComputeReachable(pl)]
                        /\ executionOrder' = [executionOrder EXCEPT ![p] =
                               topologicalSort(pl, ComputeReachable(pl))]
                        /\ idx' = [idx EXCEPT ![p] = 1]
                        /\ pc' = [pc EXCEPT ![p] = "running"]
                        /\ UNCHANGED <<result, prevCall>>

\* one iteration of the node loop: getNodeInputData, executeNode and, for a
\* node that does not await, the store of its output
ExecuteNode(p) ==
    /\ pc[p] = "running"
    /\ idx[p] <= Len(executionOrder[p])
    /\ UNCHANGED <<call, reachableNodes, executionOrder, nodeMetadataCache,
                   dashboardElementCache, config, now, lastOp, pipelines, databases>>
    /\ LET pl == call[p].pipeline
           nodeId == executionOrder[p][idx[p]]
           node == FindNode(pl, nodeId)
           inputData == getNodeInputData(node, pl, nodeResults[p])
           out == executeNode(node, inputData)
       IN  /\ executed' = [executed EXCEPT ![p] = Append(@, nodeId)]
           /\ IF node.type = "dataSource"
              THEN IF DataSourceConfigured(node) /\ node.config.databaseId \in databases
                   THEN /\ pc' = [pc EXCEPT ![p] = "fetching"]
                        /\ UNCHANGED <<idx, nodeResults, result, prevCall,
                                       pipelineExecutionCache>>
                   ELSE IF DataSourceConfigured(node)
                   THEN \* getDatabaseData throws 'Database not found' before any I/O
                        /\ Settle(p, ErrorResult(pl, executeDataSource(node, FALSE).error,
                                                 now - call[p].startTime))
                        /\ UNCHANGED <<idx, nodeResults, pipelineExecutionCache>>
                   ELSE /\ Settle(p, ErrorResult(pl, <<"no database selected", node.label>>,
                                                 now - call[p].startTime))
                        /\ UNCHANGED <<idx, nodeResults, pipelineExecutionCache>>
              ELSE IF out.ok
                   THEN Advance(p, (nodeId :> out.rows) @@ nodeResults[p])
                   ELSE /\ Settle(p, ErrorResult(pl, out.error, now - call[p].startTime))
                        /\ UNCHANGED <<idx, nodeResults, pipelineExecutionCache>>

\* the row store settles the fetch a dataSource node awaits
FetchReturn(p, fetchOk) ==
    /\ pc[p] = "fetching"
    /\ UNCHANGED <<call, reachableNodes, executionOrder, executed, nodeMetadataCache,
                   dashboardElementCache, config, now, lastOp, pipelines, databases>>
    /\ LET pl == call[p].pipeline
           nodeId == executionOrder[p][idx[p]]
           out == executeDataSource(FindNode(pl, nodeId), fetchOk)
       IN  IF out.ok
           THEN Advance(p, (nodeId :> out.rows) @@ nodeResults[p])
           ELSE /\ Settle(p, ErrorResult(pl, out.error, now - call[p].startTime))
                /\ UNCHANGED <<idx, nodeResults, pipelineExecutionCache>>

\* the caller takes the result; the slot is free for the next call
Return(p) ==
    /\ pc[p] = "done"
    /\ pc' = [pc EXCEPT ![p] = "idle"]
    /\ call' = [call EXCEPT ![p] = NoCall]
    /\ result' = [result EXCEPT ![p] = NoResult]
    /\ reachableNodes' = [reachableNodes EXCEPT ![p] = <<>>]
    /\ executionOrder' = [executionOrder EXCEPT ![p] = <<>>]
    /\ idx' = [idx EXCEPT ![p] = 0]
    /\ nodeResults' = [nodeResults EXCEPT ![p] = EmptyResults]
    /\ executed' = [executed EXCEPT ![p] = <<>>]
    /\ prevCall' = [call |-> call[p], result |-> result[p]]
    /\ UNCHANGED <<cacheVars, config, now, lastOp, pipelines, databases>>

\* time passes
Tick ==
    /\ now < MaxTime
    /\ now' = now + 1
    /\ UNCHANGED <<engineVars, cacheVars, config, lastOp, pipelines, databases>>

----------------------------------------------------------------------------
(* Generated pipelines: every choice of node types and every sequence of   *)
(* distinct edges, within the bounds.  Node i of type dataSource reads      *)
(* table i, a filter keeps the rows greater than 1 and a custom node        *)
(* concatenates its inputs.                                                 *)

DefaultCacheConfig ==
    [maxExecutionResultRows |-> 2, maxNodeResultRows |-> 3,
     maxDashboardElementRows |-> 1, pipelineExecutionTTL |-> 1,
     nodeMetadataTTL |-> 2, dashboardCacheTTL |-> 1, maxCacheEntries |-> 1]

NodeConfig(type, dbId, conditions, code) ==
    [databaseId |-> IF type = "dataSource" THEN dbId ELSE 0,
     conditions |-> IF type = "filter" THEN conditions ELSE <<>>,
     customCode |-> IF type = "custom" THEN code ELSE ""]

GtOne == <<[operator |-> "gt", value |-> 1]>>

GenNode(i, type) ==
    [id |-> i, type |-> type, label |-> i, position |-> 0,
     config |-> NodeConfig(type, i, GtOne, "concat")]

GenEdges(n) ==
    LET E == [source : 1..n, target : 1..n, targetHandle : {-1}]
    IN  UNION {{es \in [1..k -> E] : \A i, j \in 1..k : i # j => es[i] # es[j]} :
               k \in 0..MaxEdges}

GenPipeline(n, types, es) ==
    [id |-> 1, edgesDefined |-> TRUE,
     nodes |-> [i \in 1..n |-> GenNode(i, types[i])],
     edges |-> es]

\* the chain 1 -> 2 -> 3 of a dataSource (with or without a table selected),
\* a custom node (with each user function, or no code) and a filter
Edge(u, v, h) == [source |-> u, target |-> v, targetHandle |-> h]

FaultyPipelines ==
    {[id |-> 1, edgesDefined |-> TRUE,
      nodes |-> <<[GenNode(1, "dataSource") EXCEPT !.config.databaseId = dbId],
                  [GenNode(2, "custom") EXCEPT !.config.customCode = code],
                  GenNode(3, "filter")>>,
      edges |-> <<Edge(1, 2, -1), Edge(2, 3, -1)>>] :
     dbId \in {0, 1}, code \in {"", "first", "throw", "scalar"}}

\* a pipeline value whose edges property is missing
MalformedPipelines ==
    {[id |-> 1, edgesDefined |-> FALSE,
      nodes |-> <<GenNode(1, type)>>, edges |-> <<>>] : type \in NodeTypes}

(* Revisions of one pipeline: 1 (dataSource) -> 2 (filter) -> 3 (custom),   *)
(* and 1 -> 3.  A revision may move node 2 (position), rename node 3        *)
(* (label), change the filter's threshold (config) or swap the input slots  *)
(* of the custom node (targetHandle).                                       *)

Revision(position, label, threshold, swapped) ==
    [id |-> 1, edgesDefined |-> TRUE,
     nodes |-> <<GenNode(1, "dataSource"),
                 [GenNode(2, "filter") EXCEPT
                     !.position = position,
                     !.config.conditions = <<[operator |-> "gt", value |-> threshold]>>],
                 [GenNode(3, "custom") EXCEPT !.label = label]>>,
     edges |-> <<Edge(1, 2, -1),
                 Edge(1, 3, IF swapped THEN 1 ELSE 0),
                 Edge(2, 3, IF swapped THEN 0 ELSE 1)>>]

BaseRevision == Revision(0, 3, 1, FALSE)

\* the base revision and each edit of a single field of it
Revisions ==
    {BaseRevision, Revision(1, 3, 1, FALSE), Revision(0, 7, 1, FALSE),
     Revision(0, 3, 2, FALSE), Revision(0, 3, 1, TRUE)}

\* the pipelines loaded by PipelineManager.loadExistingPipelines: pipeline 1
\* reads table 1, pipeline 12 reads table 2
StoredPipelines ==
    <<BaseRevision,
      [id |-> 12, edgesDefined |-> TRUE,
       nodes |-> <<GenNode(1, "filter"), GenNode(2, "dataSource")>>,
       edges |-> <<Edge(2, 1, -1)>>]>>

\* the tables the row store holds at the start: table i is read by the
\* dataSource node i of a generated pipeline
StoredDatabases == 1..MaxNodes

StoreRows == <<1, 2, 3>>
StoreLeaf == <<[nodeId |-> 1, nodeLabel |-> 1, nodeType |-> "dataSource", data |-> StoreRows]>>

----------------------------------------------------------------------------
Init ==
    /\ pc = [p \in Procs |-> "idle"]
    /\ call = [p \in Procs |-> NoCall]
    /\ reachableNodes = [p \in Procs |-> <<>>]
    /\ executionOrder = [p \in Procs |-> <<>>]
    /\ idx = [p \in Procs |-> 0]
    /\ nodeResults = [p \in Procs |-> EmptyResults]
    /\ executed = [p \in Procs |-> <<>>]
    /\ result = [p \in Procs |-> NoResult]
    /\ prevCall = [call |-> NoCall, result |-> NoResult]
    /\ pipelineExecutionCache = <<>>
    /\ nodeMetadataCache = <<>>
    /\ dashboardElementCache = <<>>
    /\ config = DefaultCacheConfig
    /\ now = 0
    /\ lastOp = [op |-> "none"]
    /\ pipelines = StoredPipelines
    /\ databases = StoredDatabases

(* One fresh execution of any generated pipeline, with either value of      *)
(* useCache; a fetch or a custom function may fail.                         *)
Next ==
    \/ /\ pc[1] = "idle"
       /\ \E n \in 1..MaxNodes, useCache \in BOOLEAN :
             \E types \in [1..n -> NodeTypes], es \in GenEdges(n) :
                Execute(1, GenPipeline(n, types, es), useCache)
    \/ /\ pc[1] = "idle"
       /\ \E pl \in FaultyPipelines, useCache \in BOOLEAN : Execute(1, pl, useCache)
    \/ /\ pc[1] = "idle"
       /\ \E pl \in MalformedPipelines, useCache \in BOOLEAN : Execute(1, pl, useCache)
    \/ ExecuteNode(1)
    \/ \E fetchOk \in BOOLEAN : FetchReturn(1, fetchOk)

Spec == Init /\ [][Next]_vars

----------------------------------------------------------------------------
(* Graph notions the claims are stated with, defined on the edge relation  *)
(* and not through the engine's traversals.                                 *)

Successors(pl, S) == {pl.edges[i].target : i \in {j \in 1..Len(pl.edges) : pl.edges[j].source \in S}}

RECURSIVE Closure(_, _)
Closure(pl, S) == IF Successors(pl, S) \subseteq S THEN S ELSE Closure(pl, S \cup Successors(pl, S))

\* the nodes reachable by a path of length >= 0 from some dataSource node
PathReachable(pl) ==
    Closure(pl, {pl.nodes[i].id : i \in {j \in 1..Len(pl.nodes) : pl.nodes[j].type = "dataSource"}})

\* the nodes reachable from n by a path of length >= 1
ReachableBeyond(pl, n) == Closure(pl, Successors(pl, {n}))

\* no reachable node lies on a cycle (a self-loop is a cycle)
ReachableAcyclic(pl) == \A n \in PathReachable(pl) : n \notin ReachableBeyond(pl, n)

EdgeSet(pl) == {pl.edges[i] : i \in 1..Len(pl.edges)}

IsFresh(r) == r.status = "success" /\ "cached" \notin DOMAIN r

\* the node the loop of call p is about to pass to executeNode
AboutToExecute(p) == pc[p] = "running" /\ idx[p] <= Len(executionOrder[p])
NextNode(p) == executionOrder[p][idx[p]]

----------------------------------------------------------------------------
(* C1: a fresh execution that succeeds returns nodeResults whose keys are   *)
(* exactly the nodes reachable (by a path of length >= 0) from a dataSource *)
(* node, and no unreachable node is ever passed to executeNode.             *)
C1_Reachability ==
    \A p \in Procs :
        /\ Range(executed[p]) \subseteq PathReachable(call[p].pipeline)
        /\ IsFresh(result[p]) =>
              DOMAIN result[p].nodeResults = PathReachable(call[p].pipeline)

\* a success whose pipeline has an orphan node and a node two edges away from its source
C1_Witness ==
    /\ IsFresh(result[1])
    /\ NodeIds(call[1].pipeline) \ PathReachable(call[1].pipeline) # {}
    /\ Cardinality(DOMAIN result[1].nodeResults) = 2

(* C2 as claimed: whenever a node v is about to be executed, every edge     *)
(* u->v with u reachable has nodeResults[u] stored already.                 *)
C2_PredecessorsStored ==
    \A p \in Procs :
        AboutToExecute(p) =>
            \A e \in EdgeSet(call[p].pipeline) :
                (e.target = NextNode(p) /\ e.source \in PathReachable(call[p].pipeline))
                    => e.source \in DOMAIN nodeResults[p]

(* C2 amended: the same, for pipelines in which no reachable node lies on a *)
(* cycle.                                                                   *)
C2_PredecessorsStoredAcyclic ==
    \A p \in Procs :
        (AboutToExecute(p) /\ ReachableAcyclic(call[p].pipeline)) =>
            \A e \in EdgeSet(call[p].pipeline) :
                (e.target = NextNode(p) /\ e.source \in PathReachable(call[p].pipeline))
                    => e.source \in DOMAIN nodeResults[p]

\* an acyclic pipeline about to execute a node with two reachable predecessors,
\* one of which was reached after the node itself
C2_Witness ==
    /\ AboutToExecute(1)
    /\ ReachableAcyclic(call[1].pipeline)
    /\ Len(IncomingEdges(call[1].pipeline, NextNode(1))) = 2
    /\ \A i \in 1..2 : IncomingEdges(call[1].pipeline, NextNode(1))[i].source
                          \in DOMAIN nodeResults[1]
    /\ reachableNodes[1] # executionOrder[1]

(* C7: when executeNode fails for the node at position k, the failing node  *)
(* is the last one passed to executeNode, the call has settled (no later    *)
(* node runs), and the result has status error with exactly the fields      *)
(* pipelineId, status, error and executionTime.                             *)
C7_AbortOnFailure ==
    \A p \in Procs :
        result[p].status = "error" =>
            /\ pc[p] = "done"
            /\ DOMAIN result[p] = {"pipelineId", "status", "error", "executionTime"}
            /\ executed[p] # <<>> =>
                  /\ idx[p] <= Len(executionOrder[p])
                  /\ executed[p] = SubSeq(executionOrder[p], 1, idx[p])
                  /\ DOMAIN nodeResults[p] = Range(SubSeq(executionOrder[p], 1, idx[p] - 1))

\* a user function that throws at the second of three nodes, after the first
\* stored its output
C7_Witness ==
    /\ result[1].status = "error"
    /\ Len(executionOrder[1]) = 3
    /\ Len(executed[1]) = 2
    /\ DOMAIN nodeResults[1] # {}
    /\ FindNode(call[1].pipeline, executed[1][2]).type = "custom"

(* C8 as claimed: the promise returned by execute never rejects; it settles *)
(* with status success or error.                                            *)
C8_NeverRejects ==
    \A p \in Procs : pc[p] = "done" => result[p].status \in {"success", "error"}

----------------------------------------------------------------------------
\* the row caps a deployment may configure (CACHE_MAX_EXECUTION_ROWS)
LeafRowCaps == {2, 5}

SeqInit ==
    /\ pc = [p \in Procs |-> "idle"]
    /\ call = [p \in Procs |-> NoCall]
    /\ reachableNodes = [p \in Procs |-> <<>>]
    /\ executionOrder = [p \in Procs |-> <<>>]
    /\ idx = [p \in Procs |-> 0]
    /\ nodeResults = [p \in Procs |-> EmptyResults]
    /\ executed = [p \in Procs |-> <<>>]
    /\ result = [p \in Procs |-> NoResult]
    /\ prevCall = [call |-> NoCall, result |-> NoResult]
    /\ pipelineExecutionCache = <<>>
    /\ nodeMetadataCache = <<>>
    /\ dashboardElementCache = <<>>
    /\ \E cap \in LeafRowCaps :
          config = [DefaultCacheConfig EXCEPT !.maxExecutionResultRows = cap]
    /\ now = 0
    /\ lastOp = [op |-> "none"]
    /\ pipelines = StoredPipelines
    /\ databases = StoredDatabases

\* time passes between calls and while a fetch is pending
SeqTick == pc[1] \in {"idle", "fetching"} /\ Tick

(* Calls made one after the other on revisions of the pipeline, over an     *)
(* unchanged row store whose fetches succeed.                               *)
SeqNext ==
    \/ /\ pc[1] = "idle"
       /\ \E pl \in Revisions, useCache \in BOOLEAN : Execute(1, pl, useCache)
    \/ ExecuteNode(1)
    \/ FetchReturn(1, TRUE)
    \/ Return(1)
    \/ SeqTick

SpecSeq == SeqInit /\ [][SeqNext]_vars

----------------------------------------------------------------------------
(* Two calls in flight together on the same revision, with useCache set,    *)
(* over an unchanged row store whose fetches succeed.                       *)

ConcExecute(p) ==
    /\ pc[p] = "idle"
    /\ \E pl \in Revisions :
          /\ \A q \in Procs \ {p} : pc[q] # "idle" => call[q].pipeline = pl
          /\ Execute(p, pl, TRUE)

ConcNext ==
    \/ \E p \in Procs : ConcExecute(p)
    \/ \E p \in Procs : ExecuteNode(p)
    \/ \E p \in Procs : FetchReturn(p, TRUE)
    \/ Tick

SpecConc == Init /\ [][ConcNext]_vars

----------------------------------------------------------------------------
(* The cache operations issued directly: by the pipeline manager, by the    *)
(* administrative endpoints, by the sweep timer and by callers of the       *)
(* metadata and dashboard caches.                                           *)

PipelineIds == {1, 12}
StoreNodeIds == {1}
DashboardIds == {1}
ElementIds == {1}
MaxEntriesChoices == {1, 2}
Hashes == {1, 2}
DatabaseIds == {1, 2}

\* what an operation found under the key it was called with
NotFound == [present |-> FALSE]
Found(cache, k, hashed) ==
    IF k \in MapKeys(cache)
    THEN [present |-> TRUE, timestamp |-> MapGet(cache, k).timestamp,
          ttl |-> MapGet(cache, k).ttl,
          hash |-> IF hashed THEN MapGet(cache, k).data.pipelineHash ELSE 0]
    ELSE NotFound

\* what the last direct operation was: its name and arguments, for a get
\* whether it returned an entry and what it found under the key, and how many
\* entries it removed from each of the three maps
Op(name, key, hit, found, removed) ==
    [op |-> name, key |-> key, hit |-> hit, found |-> found, removed |-> removed]

PutExecution(pipelineId, hash) ==
    LET after == cachePipelineExecution(pipelineExecutionCache, config, now, pipelineId,
                                        hash, (1 :> StoreRows), StoreLeaf, 0)
        set == MapSet(pipelineExecutionCache, pipelineId, Entry(pipelineId, 0, now, 0))
    IN  /\ pipelineExecutionCache' = after
        /\ lastOp' = Op("cachePipelineExecution", <<pipelineId, hash>>, FALSE, NotFound,
                        <<Len(set) - Len(after), 0, 0>>)
        /\ UNCHANGED <<engineVars, nodeMetadataCache, dashboardElementCache, config, now,
                       pipelines, databases>>

GetExecution(pipelineId, hash) ==
    LET got == getPipelineExecution(pipelineExecutionCache, now, pipelineId, hash)
    IN  /\ pipelineExecutionCache' = got.cache
        /\ lastOp' = Op("getPipelineExecution", <<pipelineId, hash>>, got.hit,
                        Found(pipelineExecutionCache, pipelineId, TRUE),
                        <<Len(pipelineExecutionCache) - Len(got.cache), 0, 0>>)
        /\ UNCHANGED <<engineVars, nodeMetadataCache, dashboardElementCache, config, now,
                       pipelines, databases>>

\* PipelineManager.updatePipeline / deletePipeline and DELETE /api/cache/pipeline/:id
InvalidatePipeline(pipelineId) ==
    LET exec == invalidatePipelineExecution(pipelineExecutionCache, pipelineId)
        meta == invalidateNodeMetadata(nodeMetadataCache, pipelineId)
    IN  /\ pipelineExecutionCache' = exec
        /\ nodeMetadataCache' = meta
        /\ lastOp' = Op("invalidate", <<pipelineId>>, FALSE, NotFound,
                        <<Len(pipelineExecutionCache) - Len(exec),
                          Len(nodeMetadataCache) - Len(meta), 0>>)
        /\ UNCHANGED <<engineVars, dashboardElementCache, config, now, pipelines, databases>>

\* DELETE /api/database/:id: deleteDatabase removes the file and the table
\* from the row store, then the pipelines that read it lose their execution
\* result; an unknown id is answered with 404 and nothing changes
DeleteDatabase(databaseId) ==
    LET exec == invalidatePipelinesByDatabase(pipelineExecutionCache, databaseId,
                                              pipelines)
    IN  /\ UNCHANGED <<engineVars, nodeMetadataCache, dashboardElementCache, config, now,
                       pipelines>>
        /\ IF databaseId \in databases
           THEN /\ databases' = databases \ {databaseId}
                /\ pipelineExecutionCache' = exec
                /\ lastOp' = Op("invalidatePipelinesByDatabase", <<databaseId>>, TRUE,
                                NotFound, <<Len(pipelineExecutionCache) - Len(exec), 0, 0>>)
           ELSE /\ lastOp' = Op("deleteDatabase", <<databaseId>>, FALSE, NotFound,
                                <<0, 0, 0>>)
                /\ UNCHANGED <<databases, pipelineExecutionCache>>

PutNodeMetadata(pipelineId, nodeId) ==
    LET after == cacheNodeMetadata(nodeMetadataCache, config, now, pipelineId, nodeId, <<"a">>)
        key == ComposedKey(pipelineId, nodeId)
        set == MapSet(nodeMetadataCache, key, Entry(key, 0, now, 0))
    IN  /\ nodeMetadataCache' = after
        /\ lastOp' = Op("cacheNodeMetadata", <<pipelineId, nodeId>>, FALSE, NotFound,
                        <<0, Len(set) - Len(after), 0>>)
        /\ UNCHANGED <<engineVars, pipelineExecutionCache, dashboardElementCache, config,
                       now, pipelines, databases>>

GetNodeMetadata(pipelineId, nodeId) ==
    LET got == getNodeMetadata(nodeMetadataCache, now, pipelineId, nodeId)
    IN  /\ nodeMetadataCache' = got.cache
        /\ lastOp' = Op("getNodeMetadata", <<pipelineId, nodeId>>, got.hit,
                        Found(nodeMetadataCache, ComposedKey(pipelineId, nodeId), FALSE),
                        <<0, Len(nodeMetadataCache) - Len(got.cache), 0>>)
        /\ UNCHANGED <<engineVars, pipelineExecutionCache, dashboardElementCache, config,
                       now, pipelines, databases>>

PutDashboardElement(dashboardId, elementId) ==
    LET after == cacheDashboardElement(dashboardElementCache, config, now, dashboardId,
                                       elementId, StoreRows)
        key == ComposedKey(dashboardId, elementId)
        set == MapSet(dashboardElementCache, key, Entry(key, 0, now, 0))
    IN  /\ dashboardElementCache' = after
        /\ lastOp' = Op("cacheDashboardElement", <<dashboardId, elementId>>, FALSE, NotFound,
                        <<0, 0, Len(set) - Len(after)>>)
        /\ UNCHANGED <<engineVars, pipelineExecutionCache, nodeMetadataCache, config,
                       now, pipelines, databases>>

GetDashboardElement(dashboardId, elementId) ==
    LET got == getDashboardElement(dashboardElementCache, now, dashboardId, elementId)
    IN  /\ dashboardElementCache' = got.cache
        /\ lastOp' = Op("getDashboardElement", <<dashboardId, elementId>>, got.hit,
                        Found(dashboardElementCache, ComposedKey(dashboardId, elementId), FALSE),
                        <<0, 0, Len(dashboardElementCache) - Len(got.cache)>>)
        /\ UNCHANGED <<engineVars, pipelineExecutionCache, nodeMetadataCache, config,
                       now, pipelines, databases>>

InvalidateDashboard(dashboardId) ==
    LET dash == invalidateDashboard(dashboardElementCache, dashboardId)
    IN  /\ dashboardElementCache' = dash
        /\ lastOp' = Op("invalidateDashboard", <<dashboardId>>, FALSE, NotFound,
                        <<0, 0, Len(dashboardElementCache) - Len(dash)>>)
        /\ UNCHANGED <<engineVars, pipelineExecutionCache, nodeMetadataCache, config,
                       now, pipelines, databases>>

\* the interval timer of the constructor fires
cleanExpiredCache ==
    LET exec == CleanExpired(pipelineExecutionCache, now)
        meta == CleanExpired(nodeMetadataCache, now)
        dash == CleanExpired(dashboardElementCache, now)
    IN  /\ pipelineExecutionCache' = exec
        /\ nodeMetadataCache' = meta
        /\ dashboardElementCache' = dash
        /\ lastOp' = Op("cleanExpiredCache", <<>>, FALSE, NotFound,
                        <<Len(pipelineExecutionCache) - Len(exec),
                          Len(nodeMetadataCache) - Len(meta),
                          Len(dashboardElementCache) - Len(dash)>>)
        /\ UNCHANGED <<engineVars, config, now, pipelines, databases>>

updateConfig(maxCacheEntries) ==
    /\ config' = [config EXCEPT !.maxCacheEntries = maxCacheEntries]
    /\ lastOp' = Op("updateConfig", <<maxCacheEntries>>, FALSE, NotFound, <<0, 0, 0>>)
    /\ UNCHANGED <<engineVars, cacheVars, now, pipelines, databases>>

clearAll ==
    /\ pipelineExecutionCache' = <<>>
    /\ nodeMetadataCache' = <<>>
    /\ dashboardElementCache' = <<>>
    /\ lastOp' = Op("clearAll", <<>>, FALSE, NotFound,
                    <<Len(pipelineExecutionCache), Len(nodeMetadataCache),
                      Len(dashboardElementCache)>>)
    /\ UNCHANGED <<engineVars, config, now, pipelines, databases>>

\* time passes between two cache operations
StoreTick ==
    /\ now < MaxTime
    /\ now' = now + 1
    /\ lastOp' = [op |-> "tick"]
    /\ UNCHANGED <<engineVars, cacheVars, config, pipelines, databases>>

StoreNext ==
    \/ \E id \in PipelineIds : PutExecution(id, 1)
    \/ \E id \in PipelineIds : GetExecution(id, 1)
    \/ \E id \in PipelineIds : InvalidatePipeline(id)
    \/ \E id \in PipelineIds, n \in StoreNodeIds : PutNodeMetadata(id, n)
    \/ \E id \in PipelineIds, n \in StoreNodeIds : GetNodeMetadata(id, n)
    \/ \E d \in DashboardIds, e \in ElementIds : PutDashboardElement(d, e)
    \/ \E d \in DashboardIds, e \in ElementIds : GetDashboardElement(d, e)
    \/ \E d \in DashboardIds : InvalidateDashboard(d)
    \/ cleanExpiredCache
    \/ \E m \in MaxEntriesChoices : updateConfig(m)
    \/ clearAll
    \/ StoreTick

SpecStore == Init /\ [][StoreNext]_vars

(* Calls with useCache on the stored pipelines, the second one once the     *)
(* first has returned, while node metadata is cached and tables of the row  *)
(* store are deleted between the calls and while a call waits for its      *)
(* fetch (a request handler does not run between two nodes that do not      *)
(* wait).  A pending fetch may succeed or fail.                             *)
DeleteNext ==
    \/ /\ pc[2] = "idle"
       /\ \E i \in 1..Len(pipelines) : Execute(1, pipelines[i], TRUE)
    \/ /\ pc[1] = "done"
       /\ \E i \in 1..Len(pipelines) : Execute(2, pipelines[i], TRUE)
    \/ \E p \in Procs : ExecuteNode(p)
    \/ \E p \in Procs, fetchOk \in BOOLEAN : FetchReturn(p, fetchOk)
    \/ /\ \A p \in Procs : pc[p] # "running"
       /\ \E id \in PipelineIds, n \in StoreNodeIds : PutNodeMetadata(id, n)
    \/ /\ \A p \in Procs : pc[p] # "running"
       /\ \E db \in DatabaseIds : DeleteDatabase(db)

SpecDelete == Init /\ [][DeleteNext]_vars

----------------------------------------------------------------------------
(* What one execution of a pipeline on its own returns, over the same row   *)
(* store with every fetch succeeding: the reference the claims about        *)
(* caching and concurrency compare with.                                    *)

RECURSIVE RunNodes(_, _, _, _)
RunNodes(pl, order, i, nr) ==
    IF i > Len(order) THEN nr
    ELSE LET node == FindNode(pl, order[i])
             out == IF node.type = "dataSource"
                    THEN executeDataSource(node, TRUE)
                    ELSE executeNode(node, getNodeInputData(node, pl, nr))
         IN  RunNodes(pl, order, i + 1, (order[i] :> out.rows) @@ nr)

SingleNodeResults(pl) ==
    RunNodes(pl, topologicalSort(pl, ComputeReachable(pl)), 1, EmptyResults)

SingleLeafResults(pl) == CollectLeafResults(pl, ComputeReachable(pl), SingleNodeResults(pl))

\* the first min(n, cap) rows of each leaf
FirstRows(leafResults, cap) ==
    [i \in 1..Len(leafResults) |->
        [leafResults[i] EXCEPT !.data = SubSeq(@, 1, Min(Len(@), cap))]]

LeafRows(leafResults) == [i \in 1..Len(leafResults) |-> leafResults[i].data]

IsCached(r) == r.status = "success" /\ "cached" \in DOMAIN r /\ r.cached

\* the time at which a fresh successful call wrote the cache
WriteTime(c, r) == c.startTime + r.executionTime

\* the call in slot 1 has settled, it was made right after the call recorded
\* in prevCall, both with useCache, the earlier one executed afresh, and the
\* later one started within the TTL of the earlier one's cache write
SecondWithinTtl ==
    /\ pc[1] = "done"
    /\ call[1].useCache
    /\ prevCall.call.useCache
    /\ IsFresh(prevCall.result)
    /\ call[1].startTime - WriteTime(prevCall.call, prevCall.result)
          <= config.pipelineExecutionTTL

(* C3 as claimed: the second of two consecutive calls on the same pipeline  *)
(* reports cached=true and returns leafResults identical to the first's.    *)
C3_IdenticalLeafResults ==
    (SecondWithinTtl /\ call[1].pipeline = prevCall.call.pipeline) =>
        /\ IsCached(result[1])
        /\ result[1].leafResults = prevCall.result.leafResults

(* C3 amended: the second call reports cached=true and returns the same     *)
(* leaves in the same order, each with the first                            *)
(* min(n, maxExecutionResultRows) of the n rows the first call returned.    *)
C3_TruncatedLeafResults ==
    (SecondWithinTtl /\ call[1].pipeline = prevCall.call.pipeline) =>
        /\ IsCached(result[1])
        /\ result[1].leafResults =
               FirstRows(prevCall.result.leafResults, config.maxExecutionResultRows)

\* a second call at the TTL boundary whose leaf lost rows to the cap
C3_Witness ==
    /\ SecondWithinTtl
    /\ call[1].pipeline = prevCall.call.pipeline
    /\ call[1].startTime - WriteTime(prevCall.call, prevCall.result)
          = config.pipelineExecutionTTL
    /\ Len(prevCall.result.leafResults[1].data) > config.maxExecutionResultRows
    /\ Len(result[1].leafResults[1].data) = config.maxExecutionResultRows

(* C4 as claimed, for the rows of the leaves: a call answered from the      *)
(* cache returns the (row-capped) rows a fresh execution of the pipeline it *)
(* was called with returns, never those cached for another revision.        *)
C4_NoStaleHit ==
    \A p \in Procs :
        (pc[p] = "done" /\ IsCached(result[p])) =>
            LeafRows(result[p].leafResults) =
                LeafRows(FirstRows(SingleLeafResults(call[p].pipeline),
                                   config.maxExecutionResultRows))

StripPositions(pl) ==
    [pl EXCEPT !.nodes = [i \in 1..Len(pl.nodes) |-> [pl.nodes[i] EXCEPT !.position = 0]]]

ConfigsDiffer(pl1, pl2) ==
    \/ Len(pl1.nodes) # Len(pl2.nodes)
    \/ \E i \in 1..Len(pl1.nodes) : pl1.nodes[i].config # pl2.nodes[i].config

(* C5: a call on a pipeline that differs from the one cached only in node   *)
(* positions has the same structural hash and is a hit; a call on a         *)
(* pipeline that differs in the config of a node has a different            *)
(* structural hash and is a miss.                                           *)
C5_PositionNeutralConfigSensitive ==
    SecondWithinTtl =>
        /\ StripPositions(call[1].pipeline) = StripPositions(prevCall.call.pipeline) =>
              /\ calculatePipelineHash(call[1].pipeline)
                    = calculatePipelineHash(prevCall.call.pipeline)
              /\ IsCached(result[1])
        /\ ConfigsDiffer(call[1].pipeline, prevCall.call.pipeline) =>
              /\ calculatePipelineHash(call[1].pipeline)
                    # calculatePipelineHash(prevCall.call.pipeline)
              /\ IsFresh(result[1])

\* a hit on the revision that only moved a node, after the base was cached
C5_Witness ==
    /\ SecondWithinTtl
    /\ call[1].pipeline # prevCall.call.pipeline
    /\ StripPositions(call[1].pipeline) = StripPositions(prevCall.call.pipeline)
    /\ IsCached(result[1])

\* the entry of pipeline pl written at time t is in the execution-result cache
HoldsEntryOf(pl, t) ==
    /\ pl.id \in MapKeys(pipelineExecutionCache)
    /\ Cardinality({i \in 1..Len(pipelineExecutionCache) :
                       pipelineExecutionCache[i].key = pl.id}) = 1
    /\ MapGet(pipelineExecutionCache, pl.id).data.pipelineHash = calculatePipelineHash(pl).hash
    /\ MapGet(pipelineExecutionCache, pl.id).timestamp = t

(* C6 as claimed: every fresh execution that succeeds, with either value of *)
(* useCache, leaves an entry for pipeline.id with the pipeline's structural *)
(* hash and the time of that execution.                                     *)
C6_EveryFreshSuccessCached ==
    \A p \in Procs :
        (pc[p] = "done" /\ IsFresh(result[p])) =>
            HoldsEntryOf(call[p].pipeline, WriteTime(call[p], result[p]))

(* C6 amended: every fresh execution with useCache=true that succeeds       *)
(* leaves the only entry for pipeline.id, with the pipeline's structural    *)
(* hash and the time of that execution.                                     *)
C6_FreshSuccessCachedWhenUseCache ==
    \A p \in Procs :
        (pc[p] = "done" /\ IsFresh(result[p]) /\ call[p].useCache) =>
            HoldsEntryOf(call[p].pipeline, WriteTime(call[p], result[p]))

\* a fresh execution of a changed revision that replaced the entry written
\* for the revision before it, whose hash was different
C6_Witness ==
    /\ pc[1] = "done" /\ IsFresh(result[1]) /\ call[1].useCache
    /\ prevCall.call.useCache
    /\ IsFresh(prevCall.result)
    /\ calculatePipelineHash(prevCall.call.pipeline) # calculatePipelineHash(call[1].pipeline)
    /\ call[1].startTime = WriteTime(prevCall.call, prevCall.result)
    /\ WriteTime(call[1], result[1]) > call[1].startTime

(* C9: when two calls on the same pipeline both miss and both compute, each *)
(* returns status success with the leafResults a single execution returns,  *)
(* and once both have returned the cache holds one entry for the pipeline,  *)
(* with the row-capped results of a single execution, written by the call   *)
(* that finished last.                                                      *)
C9_ConcurrentMisses ==
    /\ \A p \in Procs :
          pc[p] = "done" =>
              /\ result[p].status = "success"
              /\ IsFresh(result[p]) =>
                    /\ result[p].leafResults = SingleLeafResults(call[p].pipeline)
                    /\ result[p].nodeResults = SingleNodeResults(call[p].pipeline)
    /\ (\A p \in Procs : pc[p] = "done" /\ IsFresh(result[p])) =>
          LET pl == call[1].pipeline
              e == MapGet(pipelineExecutionCache, pl.id)
              single == SingleNodeResults(pl)
          IN  /\ call[2].pipeline = pl
              /\ Cardinality({i \in 1..Len(pipelineExecutionCache) :
                                 pipelineExecutionCache[i].key = pl.id}) = 1
              /\ e.data.pipelineHash = calculatePipelineHash(pl).hash
              /\ e.data.leafResults =
                     FirstRows(SingleLeafResults(pl), config.maxExecutionResultRows)
              /\ e.data.nodeResults =
                     [id \in DOMAIN single |->
                         SubSeq(single[id], 1, Min(Len(single[id]), config.maxNodeResultRows))]
              /\ \E p \in Procs :
                    /\ e.timestamp = WriteTime(call[p], result[p])
                    /\ e.data.executionTime = result[p].executionTime
                    /\ \A q \in Procs : WriteTime(call[q], result[q]) <= e.timestamp

\* both calls missed and computed, each started before the other finished
C9_Witness ==
    /\ \A p \in Procs : pc[p] = "done" /\ IsFresh(result[p])
    /\ call[2].startTime < WriteTime(call[1], result[1])
    /\ call[1].startTime < WriteTime(call[2], result[2])
    /\ WriteTime(call[1], result[1]) # WriteTime(call[2], result[2])

(* C10 as claimed: each of the three cache maps holds at most the currently *)
(* configured maxCacheEntries entries.                                      *)
C10_WithinMaxEntries ==
    /\ Len(pipelineExecutionCache) <= config.maxCacheEntries
    /\ Len(nodeMetadataCache) <= config.maxCacheEntries
    /\ Len(dashboardElementCache) <= config.maxCacheEntries

----------------------------------------------------------------------------
(* Claims about the cache operations, stated on a step: the maps an         *)
(* operation finds and the maps it leaves.                                  *)

\* the timestamp an entry carries after a put of key k at time t
StampAfterPut(cache, k, t, j) == IF j = k THEN t ELSE MapGet(cache, j).timestamp

\* after a put of key k that found the map `before` and left the map `after`:
\* if the map with k set exceeds the limit, the surplus is removed, the
\* removed entries are the oldest written and k itself stays
EvictsOldest(before, after, k, t, cfg) ==
    LET set == MapKeys(before) \cup {k}
        kept == MapKeys(after)
        evicted == set \ kept
    IN  Cardinality(set) > cfg.maxCacheEntries =>
            /\ kept \subseteq set
            /\ Cardinality(evicted) = Cardinality(set) - cfg.maxCacheEntries
            /\ \A j \in kept, e \in evicted :
                   StampAfterPut(before, k, t, j) >= StampAfterPut(before, k, t, e)
            /\ cfg.maxCacheEntries >= 1 => k \in kept

\* every entry of the map `after` is an entry of the map `before`, unchanged
OnlyRemoves(before, after) == Range(after) \subseteq Range(before)

(* C11 as claimed: a put that leaves a map above maxCacheEntries removes    *)
(* exactly the surplus, the removed entries are those written earliest, and *)
(* the entry just written survives when maxCacheEntries >= 1; a get changes *)
(* no timestamp.                                                            *)
C11_EvictsOldestWritten ==
    [][/\ lastOp'.op = "cachePipelineExecution" =>
             EvictsOldest(pipelineExecutionCache, pipelineExecutionCache',
                          lastOp'.key[1], now, config)
       /\ lastOp'.op = "cacheNodeMetadata" =>
             EvictsOldest(nodeMetadataCache, nodeMetadataCache',
                          ComposedKey(lastOp'.key[1], lastOp'.key[2]), now, config)
       /\ lastOp'.op = "getPipelineExecution" =>
             OnlyRemoves(pipelineExecutionCache, pipelineExecutionCache')
       /\ lastOp'.op = "getNodeMetadata" =>
             OnlyRemoves(nodeMetadataCache, nodeMetadataCache')
      ]_vars

\* the entries of a map that belong to pipeline id: the execution-result
\* entry by its key, a node-metadata entry by the pipelineId it records
ExecutionEntriesOf(cache, id) == SelectSeq(cache, LAMBDA e : e.key = id)
MetadataEntriesOf(cache, id) == SelectSeq(cache, LAMBDA e : e.data.pipelineId = id)

\* the ids of the stored pipelines with a dataSource node on table databaseId
PipelinesReading(databaseId) ==
    {pipelines[i].id : i \in {j \in 1..Len(pipelines) :
        \E n \in Range(pipelines[j].nodes) :
            n.type = "dataSource" /\ n.config.databaseId = databaseId}}

(* C12 as claimed: after invalidatePipelinesByDatabase(databaseId,          *)
(* allPipelines) every pipeline with a dataSource node on databaseId has no *)
(* execution-result entry and no node-metadata entry left, and the entries  *)
(* of the other pipelines are unchanged.                                    *)
C12_InvalidatesReadersOfDatabase ==
    [][lastOp'.op = "invalidatePipelinesByDatabase" =>
          \A id \in PipelineIds :
              IF id \in PipelinesReading(lastOp'.key[1])
              THEN /\ ExecutionEntriesOf(pipelineExecutionCache', id) = <<>>
                   /\ MetadataEntriesOf(nodeMetadataCache', id) = <<>>
              ELSE /\ ExecutionEntriesOf(pipelineExecutionCache', id)
                          = ExecutionEntriesOf(pipelineExecutionCache, id)
                   /\ MetadataEntriesOf(nodeMetadataCache', id)
                          = MetadataEntriesOf(nodeMetadataCache, id)
      ]_vars

----------------------------------------------------------------------------
(* Writes and lookups on the execution-result map under either hash, while *)
(* time passes.                                                             *)

LookupNext ==
    \/ \E id \in PipelineIds, h \in Hashes : PutExecution(id, h)
    \/ \E id \in PipelineIds, h \in Hashes : GetExecution(id, h)
    \/ \E m \in MaxEntriesChoices : updateConfig(m)
    \/ StoreTick

SpecLookup == Init /\ [][LookupNext]_vars

\* the entry a lookup found had not outlived its validity when the lookup ran
\* (a tick resets lastOp, so now is the time of the operation in lastOp)
FoundFresh == lastOp.found.present /\ now - lastOp.found.timestamp <= lastOp.found.ttl

(* C13: getPipelineExecution(pipelineId, hash) returns an entry iff one     *)
(* exists for pipelineId, its TTL has not elapsed and its hash equals the   *)
(* supplied one; an entry that is expired or has another hash is removed by *)
(* the lookup, an entry that is returned stays as it was; every miss is the *)
(* plain value null.                                                        *)
C13_GetReturnsFreshMatching ==
    lastOp.op = "getPipelineExecution" =>
        LET id == lastOp.key[1]
            hash == lastOp.key[2]
        IN  /\ lastOp.hit \in BOOLEAN
            /\ lastOp.hit <=> (FoundFresh /\ lastOp.found.hash = hash)
            /\ (lastOp.found.present /\ ~lastOp.hit) =>
                  /\ id \notin MapKeys(pipelineExecutionCache)
                  /\ lastOp.removed[1] = 1
            /\ lastOp.hit =>
                  /\ Found(pipelineExecutionCache, id, TRUE) = lastOp.found
                  /\ lastOp.removed[1] = 0
            /\ ~lastOp.found.present => lastOp.removed[1] = 0

\* a lookup with the other hash, within the TTL, that removed the entry and
\* left the entry of the other pipeline in place
C13_Witness ==
    /\ lastOp.op = "getPipelineExecution"
    /\ FoundFresh
    /\ lastOp.found.hash # lastOp.key[2]
    /\ ~lastOp.hit
    /\ MapKeys(pipelineExecutionCache) = PipelineIds \ {lastOp.key[1]}

----------------------------------------------------------------------------
(* Writes and lookups on the three maps while time passes, with the limit   *)
(* on the number of entries left as configured.                             *)

TtlNext ==
    \/ \E id \in PipelineIds : PutExecution(id, 1)
    \/ \E id \in PipelineIds : GetExecution(id, 1)
    \/ \E id \in PipelineIds, n \in StoreNodeIds : PutNodeMetadata(id, n)
    \/ \E id \in PipelineIds, n \in StoreNodeIds : GetNodeMetadata(id, n)
    \/ \E d \in DashboardIds, e \in ElementIds : PutDashboardElement(d, e)
    \/ \E d \in DashboardIds, e \in ElementIds : GetDashboardElement(d, e)
    \/ StoreTick

SpecTtl == Init /\ [][TtlNext]_vars

\* the validity configured for the map an operation works on
ConfiguredTtl(op) ==
    CASE op \in {"cachePipelineExecution", "getPipelineExecution"} -> config.pipelineExecutionTTL
      [] op \in {"cacheNodeMetadata", "getNodeMetadata"} -> config.nodeMetadataTTL
      [] OTHER -> config.dashboardCacheTTL

\* the map an operation works on, and the key its arguments make
MapOf(op) ==
    CASE op \in {"cachePipelineExecution", "getPipelineExecution"} -> pipelineExecutionCache
      [] op \in {"cacheNodeMetadata", "getNodeMetadata"} -> nodeMetadataCache
      [] OTHER -> dashboardElementCache

KeyOf(op, key) ==
    IF op \in {"cachePipelineExecution", "getPipelineExecution"} THEN key[1]
    ELSE ComposedKey(key[1], key[2])

PutOps == {"cachePipelineExecution", "cacheNodeMetadata", "cacheDashboardElement"}
GetOps == {"getPipelineExecution", "getNodeMetadata", "getDashboardElement"}

(* C14: in each of the three maps a put at time T stores the entry with     *)
(* timestamp T and the validity ttl configured for the map, and a get with  *)
(* the same key (and hash) at time t that finds an entry written at T       *)
(* returns it iff t - T <= ttl.                                             *)
C14_TtlBoundary ==
    /\ lastOp.op \in PutOps =>
          LET k == KeyOf(lastOp.op, lastOp.key)
          IN  k \in MapKeys(MapOf(lastOp.op)) =>
                  /\ MapGet(MapOf(lastOp.op), k).timestamp = now
                  /\ MapGet(MapOf(lastOp.op), k).ttl = ConfiguredTtl(lastOp.op)
    /\ (lastOp.op \in GetOps /\ lastOp.found.present) =>
          /\ lastOp.found.ttl = ConfiguredTtl(lastOp.op)
          /\ now - lastOp.found.timestamp <= ConfiguredTtl(lastOp.op) => lastOp.hit
          /\ now - lastOp.found.timestamp > ConfiguredTtl(lastOp.op) => ~lastOp.hit

\* a node-metadata entry returned exactly ttl after it was written
C14_Witness ==
    /\ lastOp.op = "getNodeMetadata"
    /\ lastOp.found.present
    /\ now - lastOp.found.timestamp = config.nodeMetadataTTL
    /\ config.nodeMetadataTTL > 0
    /\ lastOp.hit

----------------------------------------------------------------------------
(* C15: a call with useCache that is answered from the cache settles in the *)
(* step that makes it, without passing a node to executeNode and without a  *)
(* fetch; its result carries cached = true and the executionTime stored in  *)
(* the entry; the entry, its timestamp included, and the rest of the cache  *)
(* are left as they were, and the entry was within its validity.            *)
C15_HitLeavesEntryUntouched ==
    [][\A p \in Procs :
          (pc'[p] = "done" /\ pc[p] # "done" /\ IsCached(result'[p])) =>
              LET id == call'[p].pipeline.id
              IN  /\ pc[p] = "idle"
                  /\ call'[p].useCache
                  /\ executed'[p] = <<>>
                  /\ id \in MapKeys(pipelineExecutionCache)
                  /\ result'[p].executionTime =
                         MapGet(pipelineExecutionCache, id).data.executionTime
                  /\ result'[p].leafResults =
                         MapGet(pipelineExecutionCache, id).data.leafResults
                  /\ now - MapGet(pipelineExecutionCache, id).timestamp
                         <= MapGet(pipelineExecutionCache, id).ttl
                  /\ pipelineExecutionCache' = pipelineExecutionCache
                  /\ UNCHANGED <<nodeMetadataCache, dashboardElementCache, config, now>>
      ]_vars

\* a second hit in a row, later than the first, on an entry whose recorded
\* execution time is not zero
C15_Witness ==
    /\ pc[1] = "done"
    /\ IsCached(result[1])
    /\ IsCached(prevCall.result)
    /\ call[1].startTime > prevCall.call.startTime
    /\ result[1].executionTime > 0
    /\ executed[1] = <<>>
    /\ MapGet(pipelineExecutionCache, call[1].pipeline.id).timestamp < call[1].startTime

----------------------------------------------------------------------------
(* PipelineManager: updates and deletions of stored pipelines between two   *)
(* executions of revisions of pipeline 1.                                   *)

StoredIds == {pipelines[i].id : i \in 1..Len(pipelines)}

\* the revisions an update may store: the base one and one with another threshold
ManagedRevisions == {BaseRevision, Revision(0, 3, 2, FALSE)}

\* updatePipeline(id, updates): null for an unknown id; otherwise the stored
\* pipeline is replaced, written to its file (which may throw) and both
\* caches of the pipeline are invalidated.  hit records that the updated
\* pipeline was returned, found the execution-result entry there was.
updatePipeline(id, updates, saveOk) ==
    LET exec == invalidatePipelineExecution(pipelineExecutionCache, id)
        meta == invalidateNodeMetadata(nodeMetadataCache, id)
        found == Found(pipelineExecutionCache, id, TRUE)
    IN  /\ UNCHANGED <<engineVars, dashboardElementCache, config, now, databases>>
        /\ IF id \notin StoredIds
           THEN /\ lastOp' = Op("updatePipeline", <<id>>, FALSE, found, <<0, 0, 0>>)
                /\ UNCHANGED <<pipelines, pipelineExecutionCache, nodeMetadataCache>>
           ELSE /\ pipelines' = [i \in 1..Len(pipelines) |->
                                    IF pipelines[i].id = id
                                    THEN [updates EXCEPT !.id = id]
                                    ELSE pipelines[i]]
                /\ IF saveOk
                   THEN /\ pipelineExecutionCache' = exec
                        /\ nodeMetadataCache' = meta
                        /\ lastOp' = Op("updatePipeline", <<id>>, TRUE, found,
                                        <<Len(pipelineExecutionCache) - Len(exec),
                                          Len(nodeMetadataCache) - Len(meta), 0>>)
                   ELSE /\ lastOp' = Op("updatePipeline", <<id>>, FALSE, found, <<0, 0, 0>>)
                        /\ UNCHANGED <<pipelineExecutionCache, nodeMetadataCache>>

\* deletePipeline(id): false for an unknown id and when removing the file
\* throws; otherwise the pipeline is forgotten and both caches invalidated
deletePipeline(id, unlinkOk) ==
    LET exec == invalidatePipelineExecution(pipelineExecutionCache, id)
        meta == invalidateNodeMetadata(nodeMetadataCache, id)
        found == Found(pipelineExecutionCache, id, TRUE)
    IN  /\ UNCHANGED <<engineVars, dashboardElementCache, config, now, databases>>
        /\ IF id \notin StoredIds \/ ~unlinkOk
           THEN /\ lastOp' = Op("deletePipeline", <<id>>, FALSE, found, <<0, 0, 0>>)
                /\ UNCHANGED <<pipelines, pipelineExecutionCache, nodeMetadataCache>>
           ELSE /\ pipelines' = SelectSeq(pipelines, LAMBDA pl : pl.id # id)
                /\ pipelineExecutionCache' = exec
                /\ nodeMetadataCache' = meta
                /\ lastOp' = Op("deletePipeline", <<id>>, TRUE, found,
                                <<Len(pipelineExecutionCache) - Len(exec),
                                  Len(nodeMetadataCache) - Len(meta), 0>>)

\* no call is between its start and its result
NoneInFlight == \A p \in Procs : pc[p] \in {"idle", "done"}

(* A call on a revision of pipeline 1; then, with no execution in flight,   *)
(* node metadata is cached and pipelines are updated or deleted; then the   *)
(* next call.                                                               *)
ManageNext ==
    \/ /\ pc[2] = "idle"
       /\ \E pl \in ManagedRevisions : Execute(1, pl, TRUE)
    \/ /\ pc[1] = "done"
       /\ \E pl \in ManagedRevisions : Execute(2, pl, TRUE)
    \/ \E p \in Procs : ExecuteNode(p)
    \/ \E p \in Procs : FetchReturn(p, TRUE)
    \/ /\ \E p \in Procs : pc[p] = "fetching"
       /\ Tick
    \/ /\ NoneInFlight /\ pc[2] = "idle"
       /\ Tick
    \/ /\ pc[1] = "done" /\ pc[2] = "idle"
       /\ \E id \in PipelineIds, n \in StoreNodeIds : PutNodeMetadata(id, n)
    \/ /\ pc[1] = "done" /\ pc[2] = "idle"
       /\ \E updates \in ManagedRevisions, saveOk \in BOOLEAN :
             updatePipeline(BaseRevision.id, updates, saveOk)
    \/ /\ pc[1] = "done" /\ pc[2] = "idle"
       /\ \E unlinkOk \in BOOLEAN : deletePipeline(BaseRevision.id, unlinkOk)

SpecManage == Init /\ [][ManageNext]_vars

\* a step of the pipeline manager: nothing of the engine moves, time stands
ManagerStep == lastOp'.op \in {"updatePipeline", "deletePipeline"} /\ UNCHANGED <<engineVars, now>>

(* C16: an updatePipeline(id) or deletePipeline(id) that goes through, which *)
(* it only does for a stored pipeline, leaves no execution-result entry and  *)
(* no node-metadata entry of id; and a call with useCache on a pipeline that *)
(* has no execution-result entry starts a fresh execution.                   *)
C16_UpdateDeleteInvalidate ==
    [][/\ (ManagerStep /\ lastOp'.hit) =>
             LET id == lastOp'.key[1]
             IN  /\ id \in StoredIds
                 /\ id \notin MapKeys(pipelineExecutionCache')
                 /\ MetadataEntriesOf(nodeMetadataCache', id) = <<>>
       /\ \A p \in Procs :
             (pc[p] = "idle" /\ pc'[p] # "idle" /\ call'[p].useCache
                 /\ call'[p].pipeline.id \notin MapKeys(pipelineExecutionCache)) =>
                    /\ pc'[p] = "running"
                    /\ ~IsCached(result'[p])
      ]_vars

\* the next call after an update that removed the execution-result entry and
\* a node-metadata entry: it runs afresh although its hash is the cached one
\* and the entry was still valid when it started
C16_Witness ==
    /\ pc[2] = "done"
    /\ IsFresh(result[2])
    /\ lastOp.op = "updatePipeline"
    /\ lastOp.hit
    /\ lastOp.removed = <<1, 1, 0>>
    /\ lastOp.found.hash = calculatePipelineHash(call[2].pipeline).hash
    /\ call[2].startTime - lastOp.found.timestamp <= lastOp.found.ttl

----------------------------------------------------------------------------
(* Writes to the three maps and invalidations of a pipeline, under either   *)
(* limit on the number of entries.                                          *)

InvalidateNext ==
    \/ \E id \in PipelineIds : PutExecution(id, 1)
    \/ \E id \in PipelineIds, n \in StoreNodeIds : PutNodeMetadata(id, n)
    \/ \E d \in DashboardIds, e \in ElementIds : PutDashboardElement(d, e)
    \/ \E id \in PipelineIds : InvalidatePipeline(id)
    \/ \E m \in MaxEntriesChoices : updateConfig(m)
    \/ StoreTick

SpecInvalidate == Init /\ [][InvalidateNext]_vars

(* C17: invalidatePipelineExecution(id) followed by                         *)
(* invalidateNodeMetadata(id) removes the execution-result entry of id and  *)
(* every node-metadata entry of id, and leaves the entries of every other   *)
(* pipeline, their order and the dashboard map as they were.                *)
C17_InvalidateFrame ==
    [][lastOp'.op = "invalidate" =>
          LET id == lastOp'.key[1]
          IN  /\ id \notin MapKeys(pipelineExecutionCache')
              /\ MetadataEntriesOf(nodeMetadataCache', id) = <<>>
              /\ pipelineExecutionCache' =
                     SelectSeq(pipelineExecutionCache, LAMBDA e : e.key # id)
              /\ nodeMetadataCache' =
                     SelectSeq(nodeMetadataCache, LAMBDA e : e.data.pipelineId # id)
              /\ \A other \in PipelineIds \ {id} :
                     /\ ExecutionEntriesOf(pipelineExecutionCache', other)
                            = ExecutionEntriesOf(pipelineExecutionCache, other)
                     /\ MetadataEntriesOf(nodeMetadataCache', other)
                            = MetadataEntriesOf(nodeMetadataCache, other)
              /\ dashboardElementCache' = dashboardElementCache
      ]_vars

\* an invalidation of pipeline 1 that removed its two entries and left those
\* of pipeline 12, whose keys begin with the same digit, and the dashboard's
C17_Witness ==
    /\ lastOp.op = "invalidate"
    /\ lastOp.key = <<1>>
    /\ lastOp.removed = <<1, 1, 0>>
    /\ MapKeys(pipelineExecutionCache) = {12}
    /\ MapKeys(nodeMetadataCache) = {ComposedKey(12, n) : n \in StoreNodeIds}
    /\ dashboardElementCache # <<>>

----------------------------------------------------------------------------
(* Writes to the three maps that are never read again, with the interval    *)
(* timer of the constructor firing again and again.                         *)

SweepNext ==
    \/ \E id \in PipelineIds : PutExecution(id, 1)
    \/ \E id \in PipelineIds, n \in StoreNodeIds : PutNodeMetadata(id, n)
    \/ \E d \in DashboardIds, e \in ElementIds : PutDashboardElement(d, e)
    \/ cleanExpiredCache
    \/ StoreTick

SpecSweep == Init /\ [][SweepNext]_vars /\ WF_vars(cleanExpiredCache)

\* the entries of a map that a sweep at time t has to leave, in their order
Unexpired(cache, t) == SelectSeq(cache, LAMBDA e : ~(t - e.timestamp > e.ttl))

\* the map holds the entry written under k at time t, and its ttl has elapsed
ExpiredIn(cache, k, t) ==
    \E i \in 1..Len(cache) :
        /\ cache[i].key = k
        /\ cache[i].timestamp = t
        /\ now - cache[i].timestamp > cache[i].ttl

MetadataKeys == {ComposedKey(id, n) : id \in PipelineIds, n \in StoreNodeIds}

DashboardKeys == {ComposedKey(d, e) : d \in DashboardIds, e \in ElementIds}

(* C18: a run of cleanExpiredCache at time now removes from each of the     *)
(* three maps exactly the entries with now - timestamp > ttl and keeps the  *)
(* others in their order; and with the timer firing again and again, an     *)
(* entry whose ttl has elapsed is eventually gone from its map although     *)
(* nothing reads it.                                                        *)
C18_SweepRemovesExpired ==
    /\ [][lastOp'.op = "cleanExpiredCache" =>
             /\ pipelineExecutionCache' = Unexpired(pipelineExecutionCache, now)
             /\ nodeMetadataCache' = Unexpired(nodeMetadataCache, now)
             /\ dashboardElementCache' = Unexpired(dashboardElementCache, now)
         ]_vars
    /\ \A t \in 0..MaxTime :
          /\ \A k \in PipelineIds :
                ExpiredIn(pipelineExecutionCache, k, t)
                    ~> ~ExpiredIn(pipelineExecutionCache, k, t)
          /\ \A k \in MetadataKeys :
                ExpiredIn(nodeMetadataCache, k, t) ~> ~ExpiredIn(nodeMetadataCache, k, t)
          /\ \A k \in DashboardKeys :
                ExpiredIn(dashboardElementCache, k, t)
                    ~> ~ExpiredIn(dashboardElementCache, k, t)

\* a sweep at time 2 that removed the execution result and the dashboard
\* element written at time 0 (ttl 1) and kept the node metadata (ttl 2)
C18_Witness ==
    /\ lastOp.op = "cleanExpiredCache"
    /\ lastOp.removed = <<1, 0, 1>>
    /\ now = 2
    /\ pipelineExecutionCache = <<>>
    /\ dashboardElementCache = <<>>
    /\ Len(nodeMetadataCache) = 1
    /\ nodeMetadataCache[1].timestamp = 0

----------------------------------------------------------------------------
\* the first min(n, cap) of the n rows, in their order
FirstOf(rows, cap) == [i \in 1..(IF Len(rows) <= cap THEN Len(rows) ELSE cap) |-> rows[i]]

\* call p has just returned from a fresh execution that wrote the cache
JustCached(p) == pc[p] = "done" /\ IsFresh(result[p]) /\ call[p].useCache

(* C19: after cachePipelineExecution, each stored leaf result holds exactly *)
(* the first min(n, maxExecutionResultRows) of the n rows supplied for that *)
(* leaf and each stored nodeResults array the first                         *)
(* min(n, maxNodeResultRows) of its n rows, in the original order; nothing  *)
(* else of a leaf is changed.                                               *)
C19_StoredRowsCapped ==
    \A p \in Procs :
        JustCached(p) =>
            /\ call[p].pipeline.id \in MapKeys(pipelineExecutionCache)
            /\ LET stored == MapGet(pipelineExecutionCache, call[p].pipeline.id).data
                   given == result[p]
               IN  /\ DOMAIN stored.nodeResults = DOMAIN given.nodeResults
                   /\ \A id \in DOMAIN given.nodeResults :
                          stored.nodeResults[id] =
                              FirstOf(given.nodeResults[id], config.maxNodeResultRows)
                   /\ Len(stored.leafResults) = Len(given.leafResults)
                   /\ \A i \in 1..Len(given.leafResults) :
                          /\ stored.leafResults[i].data =
                                 FirstOf(given.leafResults[i].data,
                                         config.maxExecutionResultRows)
                          /\ stored.leafResults[i].nodeId = given.leafResults[i].nodeId
                          /\ stored.leafResults[i].nodeLabel = given.leafResults[i].nodeLabel
                          /\ stored.leafResults[i].nodeType = given.leafResults[i].nodeType

\* a write with a leaf of 5 rows under a leaf cap of 2, and node results of
\* 5, 3 and 2 rows under a node cap of 3
C19_Witness ==
    /\ JustCached(1)
    /\ config.maxExecutionResultRows = 2
    /\ config.maxNodeResultRows = 3
    /\ Len(result[1].leafResults[1].data) = 5
    /\ {Len(result[1].nodeResults[id]) : id \in DOMAIN result[1].nodeResults} = {2, 3, 5}
    /\ Len(MapGet(pipelineExecutionCache, 1).data.leafResults[1].data) = 2
    /\ Len(MapGet(pipelineExecutionCache, 1).data.nodeResults[3]) = 3

----------------------------------------------------------------------------
(* C20: the nodeResults and leafResults returned by a fresh execution hold  *)
(* every row each node produced, whatever the row caps and whether or not   *)
(* the same call wrote a truncated copy into the cache.                     *)
C20_FreshResultsUnbounded ==
    \A p \in Procs :
        (pc[p] = "done" /\ IsFresh(result[p])) =>
            /\ result[p].nodeResults = SingleNodeResults(call[p].pipeline)
            /\ result[p].leafResults = SingleLeafResults(call[p].pipeline)
            /\ result[p].data = SingleLeafResults(call[p].pipeline)[1].data

\* a fresh execution that returned 5 rows for node 3 and for the leaf while
\* the copy it wrote into the cache holds 3 and 2 of them
C20_Witness ==
    /\ JustCached(1)
    /\ Len(result[1].nodeResults[3]) = 5
    /\ Len(result[1].leafResults[1].data) = 5
    /\ Len(result[1].data) = 5
    /\ 1 \in MapKeys(pipelineExecutionCache)
    /\ MapGet(pipelineExecutionCache, 1).timestamp = now
    /\ Len(MapGet(pipelineExecutionCache, 1).data.nodeResults[3]) = 3
    /\ Len(MapGet(pipelineExecutionCache, 1).data.leafResults[1].data) = 2

----------------------------------------------------------------------------
(* Pipelines with two dataSource nodes 1 and 2 and two custom nodes 3 and   *)
(* 4: up to three distinct edges, in every declaration order, out of 1 -> 3 *)
(* and the edges from 1, 2 and 3 into the input slots of 4.  Each is        *)
(* executed once, afresh.                                                   *)

CustomEdges ==
    {Edge(1, 3, -1), Edge(1, 4, 0), Edge(1, 4, 1), Edge(2, 4, -1), Edge(2, 4, 0),
     Edge(2, 4, 1), Edge(3, 4, 0), Edge(3, 4, 1)}

MaxCustomEdges == 3

CustomEdgeLists ==
    UNION {{es \in [1..k -> CustomEdges] : \A i, j \in 1..k : i # j => es[i] # es[j]} :
           k \in 0..MaxCustomEdges}

CustomPipelines ==
    {[id |-> 1, edgesDefined |-> TRUE,
      nodes |-> <<GenNode(1, "dataSource"), GenNode(2, "dataSource"),
                  [GenNode(3, "custom") EXCEPT !.config.customCode = c3],
                  [GenNode(4, "custom") EXCEPT !.config.customCode = c4]>>,
      edges |-> es] :
     c3 \in {"tuples", "first"}, c4 \in {"concat", "first"}, es \in CustomEdgeLists}

CustomNext ==
    \/ /\ pc[1] = "idle"
       /\ \E pl \in CustomPipelines : Execute(1, pl, FALSE)
    \/ ExecuteNode(1)
    \/ FetchReturn(1, TRUE)

SpecCustom == Init /\ [][CustomNext]_vars

\* the custom node with code that call p is about to execute
AboutToProcess(p) ==
    /\ AboutToExecute(p)
    /\ FindNode(call[p].pipeline, NextNode(p)).type = "custom"
    /\ FindNode(call[p].pipeline, NextNode(p)).config.customCode # ""

\* the arguments process is about to be called with by call p
ArgumentsOf(p) ==
    ProcessArguments(getNodeInputData(FindNode(call[p].pipeline, NextNode(p)),
                                      call[p].pipeline, nodeResults[p]))

\* args are the stored row arrays of the sources of the edges es, taken in
\* an order in which the input slots ascend
InSlotOrder(args, es, nr) ==
    /\ Len(args) = Len(es)
    /\ \E f \in [1..Len(es) -> 1..Len(es)] :
          /\ \A i, j \in 1..Len(es) : i # j => f[i] # f[j]
          /\ \A i, j \in 1..Len(es) : i < j => HandleOf(es[f[i]]) <= HandleOf(es[f[j]])
          /\ \A i \in 1..Len(es) : args[i] = ResultOrEmpty(nr, es[f[i]].source)

(* C21: a custom node with code has process called with one argument per   *)
(* incoming edge, the stored row arrays of the edge sources in ascending    *)
(* input slot order whatever the order the edges are declared in; a single  *)
(* incoming edge gives exactly one argument, whatever the rows are.         *)
C21_OneArgumentPerEdge ==
    \A p \in Procs :
        AboutToProcess(p) =>
            InSlotOrder(ArgumentsOf(p), IncomingEdges(call[p].pipeline, NextNode(p)),
                        nodeResults[p])

----------------------------------------------------------------------------
\* the reachable nodes of pl that are the source of no edge
ReachableSinks(pl) ==
    {v \in PathReachable(pl) : \A e \in EdgeSet(pl) : e.source # v}

(* C22: in a fresh execution that succeeds, leafResults holds exactly one   *)
(* entry for each reachable node without an outgoing edge and none for any  *)
(* other node.                                                              *)
C22_LeavesAreReachableSinks ==
    \A p \in Procs :
        IsFresh(result[p]) =>
            LET leaves == result[p].leafResults
            IN  /\ {leaves[i].nodeId : i \in 1..Len(leaves)} = ReachableSinks(call[p].pipeline)
                /\ \A i, j \in 1..Len(leaves) : leaves[i].nodeId = leaves[j].nodeId => i = j

\* the linear pipeline 1 -> 2 -> 3 with only 1 a dataSource: the one leaf is 3
C22_Witness ==
    /\ IsFresh(result[1])
    /\ call[1].pipeline.edges = <<Edge(1, 2, -1), Edge(2, 3, -1)>>
    /\ call[1].pipeline.nodes[2].type # "dataSource"
    /\ call[1].pipeline.nodes[3].type # "dataSource"
    /\ Len(result[1].leafResults) = 1
    /\ result[1].leafResults[1].nodeId = 3

----------------------------------------------------------------------------
\* call p was made on a pipeline without a dataSource node and has settled
\* without a cache hit
SettledWithoutSource(p) ==
    /\ pc[p] = "done"
    /\ \A i \in 1..Len(call[p].pipeline.nodes) :
           call[p].pipeline.nodes[i].type # "dataSource"
    /\ "cached" \notin DOMAIN result[p]

(* C23: execute on a pipeline without a node of type dataSource, and        *)
(* without a cache hit, returns status error with a message, executes no    *)
(* node, issues no fetch and writes nothing to the cache.                   *)
C23_NoSourceIsError ==
    \A p \in Procs :
        SettledWithoutSource(p) =>
            /\ result[p].status = "error"
            /\ result[p].error = "No data source node found in pipeline"
            /\ executed[p] = <<>>
            /\ nodeResults[p] = EmptyResults
            /\ pipelineExecutionCache = <<>>

----------------------------------------------------------------------------
(* DataTransform.aggregate applied to up to MaxAggRows rows with a group    *)
(* field g and a field x that is missing, null, a number or a string that   *)
(* is no number; with or without grouping by g; with one or two             *)
(* aggregations of x under the aliases a and b.  Each application starts    *)
(* from the initial state.                                                  *)

MaxAggRows == 2

AggRows ==
    {[g |-> g, x |-> x] : g \in {Num(1), Num(2)}, x \in {Null, Num(1), Num(4), Str("a")}}
        \cup {[g |-> g] : g \in {Num(1), Num(2)}}

AggData == UNION {[1..k -> AggRows] : k \in 0..MaxAggRows}

AggFunctions == {"sum", "avg", "min", "max", "count", "distinct"}

Aggregation(fn, alias) == [field |-> "x", function |-> fn, alias |-> alias]

AggLists ==
    {<<Aggregation(f, "a")>> : f \in AggFunctions}
        \cup {<<Aggregation(f1, "a"), Aggregation(f2, "b")>> : f1, f2 \in AggFunctions}

Aggregate(data, groupBy, aggregations) ==
    /\ lastOp.op = "none"
    /\ lastOp' = [op |-> "aggregate", data |-> data, groupBy |-> groupBy,
                  aggregations |-> aggregations,
                  result |-> aggregate(data, groupBy, aggregations)]
    /\ UNCHANGED <<engineVars, cacheVars, config, now, pipelines, databases>>

AggregateNext ==
    \E data \in AggData, groupBy \in {<<>>, <<"g">>}, aggregations \in AggLists :
        Aggregate(data, groupBy, aggregations)

SpecAggregate == Init /\ [][AggregateNext]_vars

\* the aggregated field is null or undefined in every row (of no row, too)
NothingToAggregate(op) ==
    \A i \in 1..Len(op.data) : Field(op.data[i], "x").kind \in {"null", "undefined"}

\* what the claim gives for an aggregation over nothing
OverNothing(fn) == IF fn = "avg" THEN Num(0) ELSE Null

\* row carries the claimed value under the alias of each avg, min and max
CarriesOverNothing(row, aggregations) ==
    \A i \in 1..Len(aggregations) :
        aggregations[i].function \in {"avg", "min", "max"} =>
            Field(row, aggregations[i].alias) = OverNothing(aggregations[i].function)

(* C24 as claimed: every aggregate over an empty row set, or one in which   *)
(* the aggregated field is null or undefined in every row, with or without  *)
(* group-by fields, puts out a row whose alias field is 0 for avg and null  *)
(* for min and max.                                                         *)
C24_RowOverNothing ==
    (lastOp.op = "aggregate" /\ NothingToAggregate(lastOp)) =>
        \E i \in 1..Len(lastOp.result) :
            CarriesOverNothing(lastOp.result[i], lastOp.aggregations)

(* C24 amended: without group-by fields, or over at least one row, every    *)
(* output row carries 0 for avg and null for min and max under the alias,   *)
(* and there is such a row; with group-by fields an empty row set gives an  *)
(* empty output.                                                            *)
C24_RowOverNothingPerGroup ==
    (lastOp.op = "aggregate" /\ NothingToAggregate(lastOp)) =>
        IF lastOp.groupBy # <<>> /\ lastOp.data = <<>>
        THEN lastOp.result = <<>>
        ELSE /\ lastOp.result # <<>>
             /\ \A i \in 1..Len(lastOp.result) :
                    CarriesOverNothing(lastOp.result[i], lastOp.aggregations)

\* two groups of one row each, x null in one and missing in the other, with
\* avg under a and min under b: both output rows carry a = 0 and b = null
C24_Witness ==
    /\ lastOp.op = "aggregate"
    /\ lastOp.groupBy = <<"g">>
    /\ lastOp.data = <<[g |-> Num(1), x |-> Null], [g |-> Num(2)]>>
    /\ lastOp.aggregations = <<Aggregation("avg", "a"), Aggregation("min", "b")>>
    /\ Len(lastOp.result) = 2
    /\ lastOp.result[2] = [g |-> Num(2), a |-> Num(0), b |-> Null]

----------------------------------------------------------------------------
\* the tables the dataSource nodes of pl read
DatabasesOf(pl) ==
    {pl.nodes[i].config.databaseId :
        i \in {j \in 1..Len(pl.nodes) : pl.nodes[j].type = "dataSource"}}

\* call p is started by this step and answered from the cache at once
AnsweredFromCache(p) ==
    /\ pc[p] = "idle"
    /\ pc'[p] = "done"
    /\ result'[p].status = "success"
    /\ "cached" \in DOMAIN result'[p]

(* C25: once a table has been deleted (deleteDatabase followed by           *)
(* invalidatePipelinesByDatabase), no execute with useCache of a pipeline   *)
(* that reads it is answered with cached rows, also when an execution of    *)
(* the pipeline was waiting for its fetch during the deletion.              *)
C25_NoCachedRowsOfDeleted ==
    [][\A p \in Procs :
          AnsweredFromCache(p) => DatabasesOf(call'[p].pipeline) \subseteq databases
      ]_vars

----------------------------------------------------------------------------
(* Fresh executions of the generated pipelines of MaxNodes nodes, the first *)
(* a dataSource and the others dataSource or filter nodes, with every       *)
(* sequence of edges (cycles and self-loops included), in which every fetch *)
(* returns and the event loop keeps running the call.                       *)

TerminateNext ==
    \/ /\ pc[1] = "idle"
       /\ \E types \in [1..MaxNodes -> {"dataSource", "filter"}], es \in GenEdges(MaxNodes) :
             /\ types[1] = "dataSource"
             /\ Execute(1, GenPipeline(MaxNodes, types, es), FALSE)
    \/ ExecuteNode(1)
    \/ FetchReturn(1, TRUE)

SpecTerminate ==
    Init /\ [][TerminateNext]_vars /\ WF_vars(ExecuteNode(1)) /\ WF_vars(FetchReturn(1, TRUE))

\* the execution order of call p holds every reachable node once and no other
OrdersReachable(p) ==
    /\ Range(executionOrder[p]) = PathReachable(call[p].pipeline)
    /\ \A i, j \in 1..Len(executionOrder[p]) :
           executionOrder[p][i] = executionOrder[p][j] => i = j

(* C26: for every pipeline, cycles and self-loops among its reachable nodes *)
(* included, reachability analysis and topological ordering end with an     *)
(* execution order that holds every reachable node exactly once and no      *)
(* unreachable node, and execute returns when every fetch and custom        *)
(* function returns.                                                        *)
C26_OrderingTerminates ==
    /\ [](pc[1] \in {"running", "fetching"} => OrdersReachable(1))
    /\ (pc[1] \in {"running", "fetching"}) ~> (pc[1] = "done")

\* a success on a pipeline whose three nodes are all reachable, with a
\* self-loop on one and a cycle through the others
C26_Witness ==
    /\ IsFresh(result[1])
    /\ Len(executionOrder[1]) = 3
    /\ Len(executed[1]) = 3
    /\ \E e \in EdgeSet(call[1].pipeline) : e.source = e.target
    /\ \E e, f \in EdgeSet(call[1].pipeline) :
           e.source # e.target /\ f.source = e.target /\ f.target = e.source

----------------------------------------------------------------------------
\* pl without its dead nodes (those no dataSource node reaches) and without
\* the edges that leave them
WithoutDeadNodes(pl) ==
    [pl EXCEPT !.nodes = SelectSeq(pl.nodes, LAMBDA n : n.id \in PathReachable(pl)),
               !.edges = SelectSeq(pl.edges, LAMBDA e : e.source \in PathReachable(pl))]

(* C27: dead nodes have no influence on the results: a fresh execution of a *)
(* pipeline with dead nodes and edges from them into reachable nodes gives  *)
(* the nodeResults and leafResults of the pipeline without them.            *)
C27_DeadNodesInert ==
    \A p \in Procs :
        IsFresh(result[p]) =>
            /\ result[p].nodeResults = SingleNodeResults(WithoutDeadNodes(call[p].pipeline))
            /\ result[p].leafResults = SingleLeafResults(WithoutDeadNodes(call[p].pipeline))

----------------------------------------------------------------------------
(* DataTransform.transform applied to up to MaxTransformRows rows with a    *)
(* numeric field x that may be null or missing and a string field s, under  *)
(* up to MaxOperations operations that read and write the fields x, y and   *)
(* s.  Each application starts from the initial state.                      *)

MaxTransformRows == 2

MaxOperations == 2

TransformRows ==
    {[x |-> Num(1), s |-> Str("a")], [x |-> Null, s |-> Str("b")], [s |-> Str("a")]}

TransformData == UNION {[1..k -> TransformRows] : k \in 0..MaxTransformRows}

Operation(type, sourceField, targetField, expression, dataType, dropFields) ==
    [type |-> type, sourceField |-> sourceField, targetField |-> targetField,
     expression |-> expression, dataType |-> dataType, dropFields |-> dropFields]

Rename(sourceField, targetField) == Operation("rename", sourceField, targetField, "", "", <<>>)

Calculate(targetField, expression) == Operation("calculate", "", targetField, expression, "", <<>>)

Cast(sourceField, targetField, dataType) ==
    Operation("cast", sourceField, targetField, "", dataType, <<>>)

Extract(sourceField, targetField, pattern) ==
    Operation("extract", sourceField, targetField, pattern, "", <<>>)

Drop(dropFields) == Operation("drop", "", "", "", "", dropFields)

Operations ==
    {Rename("x", "y"), Rename("s", "x"), Rename("x", "x"), Rename("", "y"),
     Calculate("y", "x * 2"), Calculate("x", "y * 2"), Calculate("y", "("),
     Cast("x", "y", "number"), Cast("x", "y", "string"), Cast("s", "x", "boolean"),
     Extract("s", "y", "a"), Extract("s", "y", "("), Extract("y", "x", "a"),
     Drop(<<"x">>), Drop(<<"y", "s">>), Drop(<<>>)}

OperationLists == UNION {[1..k -> Operations] : k \in 0..MaxOperations}

Transform(data, operations) ==
    /\ lastOp.op = "none"
    /\ lastOp' = [op |-> "transform", data |-> data, operations |-> operations,
                  result |-> transform(data, operations)]
    /\ UNCHANGED <<engineVars, cacheVars, config, now, pipelines, databases>>

TransformNext ==
    \E data \in TransformData, operations \in OperationLists : Transform(data, operations)

SpecTransform == Init /\ [][TransformNext]_vars

\* the operations applied one at a time, each to the rows the one before
\* put out
RECURSIVE OneAtATime(_, _)
OneAtATime(data, operations) ==
    IF operations = <<>> THEN data
    ELSE OneAtATime(transform(data, <<Head(operations)>>).rows, Tail(operations))

(* C30: transform applies its operation list as an ordered sequence: its    *)
(* result for operations o1..on is that of applying o1, then o2 to what o1  *)
(* put out, and so on, each operation seeing the fields the earlier ones    *)
(* produced or removed.                                                     *)
C30_AppliesInSequence ==
    lastOp.op = "transform" =>
        /\ lastOp.result.ok
        /\ lastOp.result.rows = OneAtATime(lastOp.data, lastOp.operations)

----------------------------------------------------------------------------
\* call p is about to execute a reachable node that neither is custom nor
\* fetches its rows
AboutToFeed(p) ==
    /\ AboutToExecute(p)
    /\ FindNode(call[p].pipeline, NextNode(p)).type \notin {"custom", "dataSource"}

\* the rows stored for the source of the first incoming edge of the node, in
\* edge-declaration order: none without an incoming edge, and none where
\* nothing is stored for that source
FirstEdgeRows(pl, nodeId, nr) ==
    IF IncomingEdges(pl, nodeId) = <<>> THEN <<>>
    ELSE ResultOrEmpty(nr, IncomingEdges(pl, nodeId)[1].source)

----------------------------------------------------------------------------
(* Failures inside a node.  The chain 1 -> 2 -> 3 of a dataSource, a custom *)
(* node that puts out rows of its own, with or without a null among them,   *)
(* and a node that is a transform with one or two operations, an aggregate  *)
(* or a custom node.                                                        *)

RecoverNode(type, transformations, groupBy, aggregations, code) ==
    [id |-> 3, type |-> type, label |-> 3, position |-> 0,
     config |-> [databaseId |-> 0, conditions |-> <<>>, customCode |-> code,
                 transformations |-> transformations, groupBy |-> groupBy,
                 aggregations |-> aggregations]]

RecoverOperations ==
    {Rename("x", "y"), Calculate("y", "x * 2"), Calculate("y", "("), Calculate("x", "y * 2"),
     Cast("x", "y", "number"), Extract("s", "y", "a"), Extract("s", "y", "("), Drop(<<"x">>)}

RecoverNodes ==
    {RecoverNode("transform", ops, <<>>, <<>>, "") :
         ops \in [1..1 -> RecoverOperations] \cup [1..2 -> RecoverOperations]}
        \cup {RecoverNode("aggregate", <<>>, groupBy, <<Aggregation(f, "a")>>, "") :
                  groupBy \in {<<>>, <<"s">>}, f \in {"sum", "count"}}
        \cup {RecoverNode("custom", <<>>, <<>>, <<>>, code) : code \in {"first", "throw", "scalar"}}

RecoverPipelines ==
    {[id |-> 1, edgesDefined |-> TRUE,
      nodes |-> <<GenNode(1, "dataSource"),
                  [GenNode(2, "custom") EXCEPT !.config.customCode = code],
                  node>>,
      edges |-> <<Edge(1, 2, -1), Edge(2, 3, -1)>>] :
     code \in {"records", "nulls"}, node \in RecoverNodes}

RecoverNext ==
    \/ /\ pc[1] = "idle"
       /\ \E pl \in RecoverPipelines : Execute(1, pl, FALSE)
    \/ ExecuteNode(1)
    \/ FetchReturn(1, TRUE)

SpecRecover == Init /\ [][RecoverNext]_vars

\* the operation passes the test of its case and acts
Effective(op) ==
    CASE op.type = "rename" ->
            op.sourceField # "" /\ op.targetField # "" /\ op.sourceField # op.targetField
      [] op.type = "calculate" -> op.expression # "" /\ op.targetField # ""
      [] op.type = "cast" -> op.sourceField # "" /\ op.dataType # "" /\ op.targetField # ""
      [] op.type = "extract" ->
            op.sourceField # "" /\ op.expression # "" /\ op.targetField # ""
      [] OTHER -> op.dropFields # <<>>

\* evaluating the expression of a calculate fails on row: the row is null,
\* the expression is malformed or it names what is no field of the row
CalculateFails(op, row) ==
    /\ op.type = "calculate" /\ Effective(op)
    /\ \/ IsNullRow(row)
       \/ op.expression = "("
       \/ ExpressionField(op.expression) \notin DOMAIN row

\* the pattern of an extract is no regular expression, on a row whose source
\* field has a value to search
PatternFails(op, row) ==
    /\ op.type = "extract" /\ Effective(op)
    /\ ~IsNullRow(row)
    /\ ~Falsy(Field(row, op.sourceField))
    /\ op.expression = "("

\* a rename, cast or extract reads its source field of a row that is null
ReadFails(op, row) ==
    /\ op.type \in {"rename", "cast", "extract"} /\ Effective(op)
    /\ IsNullRow(row)

\* op writes or removes field
Touches(op, field) ==
    /\ Effective(op)
    /\ \/ op.type # "drop" /\ op.targetField = field
       \/ op.type = "rename" /\ op.sourceField = field
       \/ op.type = "drop" /\ field \in Range(op.dropFields)

\* the third node of the chain call 1 runs, its rows and its operations
ThirdNode == call[1].pipeline.nodes[3]
ThirdInput == nodeResults[1][2]
ThirdOperations == ThirdNode.config.transformations

\* call 1 has settled after its third node was executed
ThirdSettled ==
    /\ pc[1] = "done"
    /\ Len(executed[1]) = 3

\* op fails on row in the given way
Fails(way, op, row) ==
    CASE way = "calculate" -> CalculateFails(op, row)
      [] way = "pattern" -> PatternFails(op, row)
      [] way = "read" -> ReadFails(op, row)
      [] OTHER -> CalculateFails(op, row) \/ PatternFails(op, row)

\* some operation of the transform fails on some row in the given way
SomeFails(way) ==
    /\ ThirdNode.type = "transform"
    /\ \E i \in 1..Len(ThirdInput), k \in 1..Len(ThirdOperations) :
           Fails(way, ThirdOperations[k], ThirdInput[i])

\* the aggregate function or the custom function fails
FunctionFails ==
    \/ ThirdNode.type = "aggregate" /\ \E i \in 1..Len(ThirdInput) : IsNullRow(ThirdInput[i])
    \/ ThirdNode.type = "custom" /\ ThirdNode.config.customCode \in {"throw", "scalar"}

\* in the rows the transform put out, the target field of every operation
\* that failed in the given way is null, unless a later operation wrote or
\* removed it
NullWhere(way) ==
    ThirdNode.type = "transform" =>
        \A i \in 1..Len(ThirdInput), k \in 1..Len(ThirdOperations) :
            (/\ Fails(way, ThirdOperations[k], ThirdInput[i])
             /\ \A j \in (k + 1)..Len(ThirdOperations) :
                    ~Touches(ThirdOperations[j], ThirdOperations[k].targetField))
                => Field(result[1].nodeResults[3][i], ThirdOperations[k].targetField) = Null

(* C28 as claimed: a failure of a calculate expression sets the target      *)
(* field to null and the execution goes on to status success; every other   *)
(* failure inside a rename, cast, extract or drop, an aggregate function or *)
(* a custom function gives status error.                                    *)
C28_OnlyCalculateRecovers ==
    ThirdSettled =>
        IF SomeFails("read") \/ SomeFails("pattern") \/ FunctionFails
        THEN result[1].status = "error"
        ELSE result[1].status = "success" /\ NullWhere("calculate")

(* C28 amended: a failure of a calculate expression, and a pattern of an    *)
(* extract that is no regular expression, set the target field to null and  *)
(* the execution goes on to status success; a rename, cast or extract on a  *)
(* row that is null, a failing aggregate function and a failing custom      *)
(* function give status error.                                              *)
C28_CalculateAndPatternRecover ==
    ThirdSettled =>
        IF SomeFails("read") \/ FunctionFails
        THEN result[1].status = "error"
        ELSE result[1].status = "success" /\ NullWhere("calculate or pattern")

\* a success in which a calculate and an extract failed and left null
C28_Witness ==
    /\ ThirdSettled
    /\ result[1].status = "success"
    /\ SomeFails("calculate")
    /\ SomeFails("pattern")
    /\ \E i \in 1..Len(ThirdInput) : Field(result[1].nodeResults[3][i], "y") = Null

====
